---- MODULE Spec2Model ----
(***************************************************************************)
(* Model of the streaming trace processor of JaegerAnomalyDetection:      *)
(* the ring window (engine/src/window.rs), the Welford accumulator        *)
(* (engine/src/welford.rs), the anomaly-score processor                   *)
(* (engine/src/processor/anomaly_score.rs) and the processor tree         *)
(* trace -> configuration -> group -> metric -> statistic                 *)
(* (engine/src/processor/{trace,span,metric,source,stats,...}.rs).        *)
(*                                                                         *)
(* Time is counted in whole seconds.  A Duration is the record            *)
(* [unit, n]; a DateTime is an integer.  Floating point values are exact  *)
(* rationals <<num, den>> in lowest terms.                                *)
(***************************************************************************)
EXTENDS Integers, Sequences, FiniteSets, TLC

VARIABLES
    win,      \* window.rs: a Window<T> under test (T = the bin start handed to init)
    wop,      \* the last operation applied to win
    asp,      \* anomaly_score.rs: an AnomalyScoreProcessor
    ahist,    \* the (t, value) pairs inserted into asp so far, in call order
    aop,      \* the last operation applied to asp
    proc,     \* trace.rs: the TraceProcessor
    cfg,      \* the TraceConfig the processor runs under
    pop,      \* the last operation applied to proc
    sd,       \* source.rs: a span, its children and what the SelfDuration source emitted
    orch,     \* proc.rs: the orchestrator task and its environment
    selq,     \* config.rs: a selector, a span and the result of matches
    wf,       \* welford.rs: two value sequences, their accumulators and the merge
    src,      \* source.rs: a source processor and the last span inserted into it
    spx,      \* span.rs: a SpanProcessor and the spans inserted into it
    hgp,      \* histogram.rs: a HistogramProcessor and the values inserted into it
    smp,      \* summary.rs: a SummaryProcessor and the values inserted into it
    boot,     \* proc.rs: the state file and what Processor::new starts the task with
    fl,       \* proc.rs: the flush loops of process_traces, one iteration per step
    pg        \* proc.rs: the paging of for_traces and the roots given to the handler

vars == <<win, wop, asp, ahist, aop, proc, cfg, pop, sd, orch, selq, wf, src,
          spx, hgp, smp, boot, fl, pg>>

(***************************************************************************)
(* Bounds of the model.                                                    *)
(***************************************************************************)
MaxTime == 9            \* timestamps are drawn from 0..MaxTime
MaxInserts == 3         \* inserts into the anomaly-score processor
MaxBinWidth == 3        \* bin widths of the window under test: 1..MaxBinWidth
MaxNumBins == 3         \* ring sizes of the window under test: 1..MaxNumBins
ImmediateBinWidth == 2  \* scaled bin width of the immediate windows (code: 30s)
I5mNumBins == 2         \* scaled ring size of the 5m window (code: 10)
I15mNumBins == 3        \* scaled ring size of the 15m window (code: 30)
R7dBinWidth == 3        \* scaled bin width of the 7d window (code: 15 minutes)
R7dNumBins == 2         \* scaled ring size of the 7d window (code: 672)
R30dBinWidth == 4       \* scaled bin width of the 30d window (code: 1 hour)
R30dNumBins == 2        \* scaled ring size of the 30d window (code: 720)

Times == 0..MaxTime
Values == {1, 3}        \* observations fed to the statistics

Max(a, b) == IF a >= b THEN a ELSE b
Min(a, b) == IF a <= b THEN a ELSE b

(***************************************************************************)
(* Exact rational arithmetic standing for the extended precision floats.   *)
(***************************************************************************)
Abs(n) == IF n < 0 THEN -n ELSE n

RECURSIVE GCD(_, _)
GCD(a, b) == IF b = 0 THEN a ELSE GCD(b, a % b)

RNorm(n, d) ==
    LET g == GCD(Abs(n), Abs(d))
        s == IF d < 0 THEN -1 ELSE 1
    IN  <<s * (n \div g), s * (d \div g)>>

\* An integer as a float (n as f64; the widening from_f64 is exact).
Rat(n) == <<n, 1>>
RAdd(a, b) == RNorm(a[1] * b[2] + b[1] * a[2], a[2] * b[2])
RSub(a, b) == RNorm(a[1] * b[2] - b[1] * a[2], a[2] * b[2])
RMul(a, b) == RNorm(a[1] * b[1], a[2] * b[2])
RDiv(a, b) == RNorm(a[1] * b[2], a[2] * b[1])

(***************************************************************************)
(* lib/src/config.rs: Duration and WindowConfig.                           *)
(***************************************************************************)
Seconds(n) == [unit |-> "Seconds", n |-> n]
Minutes(n) == [unit |-> "Minutes", n |-> n]

to_time_delta(d) ==
    CASE d.unit = "Seconds" -> d.n
      [] d.unit = "Minutes" -> d.n * 60
      [] d.unit = "Hours"   -> d.n * 60 * 60
      [] d.unit = "Days"    -> d.n * 24 * 60 * 60
      [] d.unit = "Weeks"   -> d.n * 7 * 24 * 60 * 60

WindowConfig(bw, nb) == [bin_width |-> bw, num_bins |-> nb]

\* chrono's DateTime::duration_trunc: round down to a multiple of the span.
duration_trunc(t, span) == t - (t % span)

(***************************************************************************)
(* engine/src/welford.rs: Welford<T>.                                      *)
(***************************************************************************)
Welford_default == [count |-> Rat(0), mean |-> Rat(0), m2 |-> Rat(0)]

Welford_insert(w, n) ==
    LET old_mean == w.mean
        count == RAdd(w.count, Rat(1))
        mean == RAdd(w.mean, RDiv(RSub(n, old_mean), count))
        m2 == RAdd(RMul(RSub(n, mean), RSub(n, old_mean)), w.m2)
    IN  [count |-> count, mean |-> mean, m2 |-> m2]

(***************************************************************************)
(* engine/src/window.rs: Window<T>.  ring is a sequence, so ring[k + 1]    *)
(* is the code's ring[k].  An init closure is a function of the bin start. *)
(***************************************************************************)
Window_bin_width(w) == to_time_delta(w.bin_width)
Window_num_bins(w) == Len(w.ring)

Window_new_init(start, init, config) ==
    LET bin_width == to_time_delta(config.bin_width)
        s == duration_trunc(start, bin_width)
    IN  [i |-> 0,
         start |-> s,
         bin_width |-> config.bin_width,
         ring |-> [k \in 1..config.num_bins |-> init[s + bin_width * (k - 1)]]]

Window_current(w) == w.ring[w.i + 1]
Window_first(w) == w.ring[((w.i + 1) % Len(w.ring)) + 1]

Window_compatible_with(w, config) ==
    /\ Window_bin_width(w) = to_time_delta(config.bin_width)
    /\ Window_num_bins(w) = config.num_bins

\* One iteration of the loop of advance_init / advance_with_init.
Window_step(w, init) ==
    LET next == w.start + Window_bin_width(w)
        i == (w.i + 1) % Len(w.ring)
    IN  [w EXCEPT !.i = i, !.ring[i + 1] = init[next], !.start = next]

\* Variant of the loop that stops one bin early (next < t instead of next <= t).
RECURSIVE Window_advance_loop_strict(_, _, _)
Window_advance_loop_strict(w, t, init) ==
    IF w.start + Window_bin_width(w) < t
    THEN Window_advance_loop_strict(Window_step(w, init), t, init)
    ELSE w

\* The loop of advance_init, with t already truncated.
RECURSIVE Window_advance_loop(_, _, _)
Window_advance_loop(w, t, init) ==
    IF w.start + Window_bin_width(w) <= t
    THEN Window_advance_loop(Window_step(w, init), t, init)
    ELSE w

\* Variant of advance_init that restarts the window at t when t regresses.
Window_advance_init_rewind(w, t, init) ==
    LET tt == duration_trunc(t, Window_bin_width(w))
    IN  IF tt < w.start
        THEN [w EXCEPT !.start = tt, !.ring[w.i + 1] = init[tt]]
        ELSE Window_advance_loop(w, tt, init)

Window_advance_init(w, t, init) ==
    Window_advance_loop(w, duration_trunc(t, Window_bin_width(w)), init)

\* The iterator of advance_with_init, drained by its caller, with t already
\* truncated: the window it leaves and, per step, the window that output
\* is called on (the state before that step).
\* Variant of the iterator that calls output after the step.
RECURSIVE Window_advance_with_loop_after(_, _, _, _)
Window_advance_with_loop_after(w, t, init, seen) ==
    IF w.start + Window_bin_width(w) <= t
    THEN Window_advance_with_loop_after(Window_step(w, init), t, init,
                                        Append(seen, Window_step(w, init)))
    ELSE [window |-> w, seen |-> seen]

RECURSIVE Window_advance_with_loop(_, _, _, _)
Window_advance_with_loop(w, t, init, seen) ==
    IF w.start + Window_bin_width(w) <= t
    THEN Window_advance_with_loop(Window_step(w, init), t, init, Append(seen, w))
    ELSE [window |-> w, seen |-> seen]

Window_advance_with_init(w, t, init, output(_)) ==
    LET r == Window_advance_with_loop(w, duration_trunc(t, Window_bin_width(w)),
                                      init, <<>>)
    IN  [window |-> r.window,
         outputs |-> [k \in 1..Len(r.seen) |-> output(r.seen[k])]]

(***************************************************************************)
(* engine/src/welford.rs: the statistics of a Window<Welford>.             *)
(***************************************************************************)
RLe(a, b) == a[1] * b[2] <= b[1] * a[2]

Window_count(w) == RSub(Window_current(w).count, Window_first(w).count)

\* Float arithmetic with the values that are no numbers: <<0, 0>> is NaN,
\* <<1, 0>> and <<-1, 0>> are the infinities.  The sign of a zero is left out.
NaN == <<0, 0>>
Inf(sign) == <<sign, 0>>
IsFinite(x) == x[2] # 0
IsNaN(x) == x = NaN
Sign(n) == IF n < 0 THEN -1 ELSE IF n > 0 THEN 1 ELSE 0

FNeg(a) == <<-a[1], a[2]>>

FAdd(a, b) ==
    CASE IsNaN(a) \/ IsNaN(b) -> NaN
      [] ~IsFinite(a) /\ ~IsFinite(b) -> IF a = b THEN a ELSE NaN
      [] ~IsFinite(a) -> a
      [] ~IsFinite(b) -> b
      [] OTHER -> RAdd(a, b)

FSub(a, b) == FAdd(a, FNeg(b))

FMul(a, b) ==
    CASE IsNaN(a) \/ IsNaN(b) -> NaN
      [] ~IsFinite(a) \/ ~IsFinite(b) ->
            IF a[1] = 0 \/ b[1] = 0 THEN NaN ELSE Inf(Sign(a[1]) * Sign(b[1]))
      [] OTHER -> RMul(a, b)

FDiv(a, b) ==
    CASE IsNaN(a) \/ IsNaN(b) -> NaN
      [] ~IsFinite(a) /\ ~IsFinite(b) -> NaN
      [] ~IsFinite(a) -> Inf(Sign(a[1]) * (IF b[1] < 0 THEN -1 ELSE 1))
      [] ~IsFinite(b) -> Rat(0)
      [] b[1] = 0 -> IF a[1] = 0 THEN NaN ELSE Inf(Sign(a[1]))
      [] OTHER -> RDiv(a, b)

Window_mean(w) ==
    LET a == Window_first(w)
        ab == Window_current(w)
    IN  FAdd(a.mean, FMul(FSub(ab.mean, a.mean),
                          FDiv(ab.count, FSub(ab.count, a.count))))

Window_m2(w) ==
    LET a == Window_first(w)
        ab == Window_current(w)
        count == FSub(ab.count, a.count)
        mean_diff == FSub(ab.mean, a.mean)
    IN  FSub(FSub(ab.m2, a.m2),
             FMul(FMul(mean_diff, mean_diff), FDiv(FMul(ab.count, a.count), count)))

\* Welford::merge; a.mul_add(b, c) is a * b + c.
Welford_merge(w, other) ==
    LET delta == FSub(other.mean, w.mean)
        mean == FAdd(w.mean, FAdd(FMul(delta, FDiv(other.count, w.count)), other.count))
        m2 == FAdd(w.m2,
                   FAdd(FMul(FMul(delta, delta),
                             FDiv(FMul(w.count, other.count), FAdd(w.count, other.count))),
                        other.m2))
    IN  [count |-> FAdd(w.count, other.count), mean |-> mean, m2 |-> m2]

\* The variance that stddev takes the square root of.
Window_var(w) == FDiv(Window_m2(w), FSub(Window_count(w), Rat(1)))

\* confidence_interval: stddev * cdf(q, df) / count.  The square root and
\* the Student's t factor are left out: the result is a number exactly when
\* the variance is a number that is not negative and the division by count
\* is one of a number by a non-zero number.
Window_confidence_interval_is_finite(w) ==
    /\ IsFinite(Window_var(w)) /\ Window_var(w)[1] >= 0
    /\ Window_count(w)[1] # 0

(***************************************************************************)
(* lib/src/anomaly_score.rs: the intervals and their window configuration, *)
(* scaled down (see the bounds).                                           *)
(***************************************************************************)
ImmediateIntervals == {"5m", "15m"}
ReferenceIntervals == {"7d", "30d"}

ImmediateInterval_window_config(interval) ==
    CASE interval = "5m"  -> WindowConfig(Seconds(ImmediateBinWidth), I5mNumBins)
      [] interval = "15m" -> WindowConfig(Seconds(ImmediateBinWidth), I15mNumBins)

ReferenceInterval_window_config(interval) ==
    CASE interval = "7d"  -> WindowConfig(Seconds(R7dBinWidth), R7dNumBins)
      [] interval = "30d" -> WindowConfig(Seconds(R30dBinWidth), R30dNumBins)

\* An init closure that ignores the bin start (|_| v).
ConstInit(v, config) ==
    [s \in 0..(MaxTime + to_time_delta(config.bin_width) * config.num_bins) |-> v]

\* Window::new: every bin holds T::default().
Window_new(t, dflt, config) == Window_new_init(t, ConstInit(dflt, config), config)

(***************************************************************************)
(* engine/src/processor/anomaly_score.rs: AnomalyScoreProcessor.           *)
(***************************************************************************)
AnomalyScoreConfig(refs, imms, offset, q) ==
    [reference_intervals |-> refs, immediate_intervals |-> imms,
     offset |-> offset, q |-> q]

AnomalyScoreConfig_default ==
    AnomalyScoreConfig(ReferenceIntervals, ImmediateIntervals, 0, 99)

AnomalyScoreProcessor_new(t, config) ==
    [welford |-> Welford_default,
     config |-> config,
     immediate |-> [iv \in config.immediate_intervals |->
                       Window_new(t, Welford_default, ImmediateInterval_window_config(iv))],
     reference |-> [iv \in config.reference_intervals |->
                       Window_new(t, Welford_default, ReferenceInterval_window_config(iv))]]

AnomalyScoreProcessor_update(p, t, config) ==
    [welford |-> p.welford,
     config |-> config,
     immediate |-> [iv \in config.immediate_intervals |->
        LET wc == ImmediateInterval_window_config(iv)
        IN  IF iv \in DOMAIN p.immediate /\ Window_compatible_with(p.immediate[iv], wc)
            THEN p.immediate[iv]
            ELSE Window_new_init(t, ConstInit(p.welford, wc), wc)],
     reference |-> [iv \in config.reference_intervals |->
        LET wc == ReferenceInterval_window_config(iv)
        IN  IF iv \in DOMAIN p.reference /\ Window_compatible_with(p.reference[iv], wc)
            THEN p.reference[iv]
            ELSE Window_new_init(t, ConstInit(p.welford, wc), wc)]]

AnomalyScoreProcessor_save(p) == p

AnomalyScoreProcessor_load(t, state, config) ==
    AnomalyScoreProcessor_update(state, t, config)

\* The closure handed to advance_init by insert: |s| value(s + bin_width),
\* where value(end) is the new accumulator if t >= end and the old one otherwise.
AnomalyScore_insert_init(t, prev, welford, w) ==
    [s \in 0..(MaxTime + Window_bin_width(w)) |->
        IF t >= s + Window_bin_width(w) THEN welford ELSE prev]

AnomalyScoreProcessor_insert(p, t, value) ==
    LET prev == p.welford
        welford == Welford_insert(p.welford, value)
        adv(w) == Window_advance_init(w, t, AnomalyScore_insert_init(t, prev, welford, w))
    IN  [p EXCEPT !.welford = welford,
                  !.immediate = [iv \in DOMAIN p.immediate |-> adv(p.immediate[iv])],
                  !.reference = [iv \in DOMAIN p.reference |-> adv(p.reference[iv])]]

\* Every window of an anomaly-score processor.
AnomalyScore_windows(p) ==
    {p.immediate[iv] : iv \in DOMAIN p.immediate}
        \cup {p.reference[iv] : iv \in DOMAIN p.reference}

(***************************************************************************)
(* engine/src/jaeger.rs: spans and tag values.  An Option is a sequence of *)
(* length at most one.                                                     *)
(***************************************************************************)
None == <<>>
Some(x) == <<x>>
IsSome(o) == Len(o) = 1
Unwrap(o) == o[1]

TagString(s) == [ty |-> "String", s |-> s, n |-> 0, b |-> FALSE]
TagInt64(n) == [ty |-> "Int64", s |-> "", n |-> n, b |-> FALSE]
TagBool(b) == [ty |-> "Bool", s |-> "", n |-> 0, b |-> b]

Tag(key, value) == [key |-> key, value |-> value]

\* tags.iter().find(|tag| &tag.key == name).map(|tag| &tag.value)
FindTag(tags, name) ==
    LET hits == {k \in 1..Len(tags) : tags[k].key = name}
    IN  IF hits = {} THEN None
        ELSE Some(tags[CHOOSE k \in hits : \A j \in hits : k <= j].value)

TagValue_as_int(o) ==
    IF IsSome(o) /\ Unwrap(o).ty = "Int64" THEN Some(Unwrap(o).n) ELSE None

\* references holds the span ids of the ChildOf references, in order.
Span(id, refs, op, svc, start, dur, tags, ptags) ==
    [span_id |-> id, references |-> refs, operation_name |-> op,
     start_time |-> start, duration |-> dur, tags |-> tags,
     process |-> [service_name |-> svc, tags |-> ptags]]

(***************************************************************************)
(* engine/src/config.rs: SpanKey, KeyName, Range and SpanSelector.         *)
(***************************************************************************)
OperationName == [kind |-> "OperationName", name |-> ""]
ServiceName == [kind |-> "ServiceName", name |-> ""]
ProcessTag(name) == [kind |-> "ProcessTag", name |-> name]
SpanTag(name) == [kind |-> "SpanTag", name |-> name]
Duration == [kind |-> "Duration", name |-> ""]

Current(key) == [rel |-> "Current", key |-> key]
Parent(key) == [rel |-> "Parent", key |-> key]

KeyName_get(key, span) ==
    CASE key.kind = "OperationName" -> Some(TagString(span.operation_name))
      [] key.kind = "ServiceName"   -> Some(TagString(span.process.service_name))
      [] key.kind = "Duration"      -> Some(TagInt64(span.duration))
      [] key.kind = "ProcessTag"    -> FindTag(span.process.tags, key.name)
      [] key.kind = "SpanTag"       -> FindTag(span.tags, key.name)

\* parent is an Option<Span>.
SpanKey_get(key, span, parent) ==
    IF key.rel = "Current" THEN KeyName_get(key.key, span)
    ELSE IF IsSome(parent) THEN KeyName_get(key.key, Unwrap(parent)) ELSE None

\* A bound is None or Some of [op, n].
Range(lower, upper) == [lower |-> lower, upper |-> upper]

LowerBound_matches(bound, n) ==
    IF bound.op = "Gt" THEN n > bound.n ELSE n >= bound.n

UpperBound_matches(bound, n) ==
    IF bound.op = "Lt" THEN n < bound.n ELSE n <= bound.n

Range_contains(range, n) ==
    /\ (IsSome(range.lower) => LowerBound_matches(Unwrap(range.lower), n))
    /\ (IsSome(range.upper) => UpperBound_matches(Unwrap(range.upper), n))

\* A Regex is its pattern and the strings of the model that it matches.
Regex(pattern, lang) == [pattern |-> pattern, lang |-> lang]
Regex_matches(re, s) == s \in re.lang

SelAll(sels) == [op |-> "All", sels |-> sels]
SelAny(sels) == [op |-> "Any", sels |-> sels]
SelNot(sel) == [op |-> "Not", sels |-> <<sel>>]
SelHas(key) == [op |-> "Has", key |-> key]
SelKeyEq(a, b) == [op |-> "KeyEq", key |-> a, key2 |-> b]
SelKeyNe(a, b) == [op |-> "KeyNe", key |-> a, key2 |-> b]
SelIn(key, values) == [op |-> "In", key |-> key, values |-> values]
SelNotIn(key, values) == [op |-> "NotIn", key |-> key, values |-> values]
SelMatch(key, re) == [op |-> "Match", key |-> key, re |-> re]
SelNoMatch(key, re) == [op |-> "NoMatch", key |-> key, re |-> re]
SelEq(key, v) == [op |-> "Eq", key |-> key, n |-> v]
SelNe(key, v) == [op |-> "Ne", key |-> key, n |-> v]
SelInside(key, range) == [op |-> "Inside", key |-> key, range |-> range]
SelOutside(key, range) == [op |-> "Outside", key |-> key, range |-> range]
SelIsTrue(key) == [op |-> "IsTrue", key |-> key]
SelIsFalse(key) == [op |-> "IsFalse", key |-> key]

\* A matches whose Any asks every member to match.
RECURSIVE SpanSelector_matches_any_all(_, _, _)
SpanSelector_matches_any_all(sel, span, parent) ==
    LET v == SpanKey_get(sel.key, span, parent)
        isA(ty) == IsSome(v) /\ Unwrap(v).ty = ty
    IN  CASE sel.op \in {"All", "Any"} ->
                \A k \in 1..Len(sel.sels) :
                    SpanSelector_matches_any_all(sel.sels[k], span, parent)
          [] sel.op = "Not" -> ~SpanSelector_matches_any_all(sel.sels[1], span, parent)
          [] sel.op = "Has" -> IsSome(v)
          [] sel.op = "In" -> isA("String") /\ Unwrap(v).s \in sel.values
          [] sel.op = "NotIn" -> isA("String") /\ Unwrap(v).s \notin sel.values
          [] sel.op = "KeyEq" -> v = SpanKey_get(sel.key2, span, parent)
          [] sel.op = "KeyNe" -> v # SpanKey_get(sel.key2, span, parent)
          [] sel.op = "Eq" -> isA("Int64") /\ Unwrap(v).n = sel.n
          [] sel.op = "Match" -> isA("String") /\ Regex_matches(sel.re, Unwrap(v).s)
          [] sel.op = "NoMatch" -> isA("String") /\ ~Regex_matches(sel.re, Unwrap(v).s)
          [] sel.op = "Ne" -> isA("Int64") /\ Unwrap(v).n # sel.n
          [] sel.op = "Inside" -> isA("Int64") /\ Range_contains(sel.range, Unwrap(v).n)
          [] sel.op = "Outside" -> isA("Int64") /\ ~Range_contains(sel.range, Unwrap(v).n)
          [] sel.op = "IsTrue" -> isA("Bool") /\ Unwrap(v).b
          [] sel.op = "IsFalse" -> isA("Bool") /\ ~Unwrap(v).b

RECURSIVE SpanSelector_matches(_, _, _)
SpanSelector_matches(sel, span, parent) ==
    LET v == SpanKey_get(sel.key, span, parent)
        isA(ty) == IsSome(v) /\ Unwrap(v).ty = ty
    IN  CASE sel.op = "All" ->
                \A k \in 1..Len(sel.sels) : SpanSelector_matches(sel.sels[k], span, parent)
          [] sel.op = "Any" ->
                \E k \in 1..Len(sel.sels) : SpanSelector_matches(sel.sels[k], span, parent)
          [] sel.op = "Not" -> ~SpanSelector_matches(sel.sels[1], span, parent)
          [] sel.op = "Has" -> IsSome(v)
          [] sel.op = "In" -> isA("String") /\ Unwrap(v).s \in sel.values
          [] sel.op = "NotIn" -> isA("String") /\ Unwrap(v).s \notin sel.values
          [] sel.op = "KeyEq" -> v = SpanKey_get(sel.key2, span, parent)
          [] sel.op = "KeyNe" -> v # SpanKey_get(sel.key2, span, parent)
          [] sel.op = "Eq" -> isA("Int64") /\ Unwrap(v).n = sel.n
          [] sel.op = "Match" -> isA("String") /\ Regex_matches(sel.re, Unwrap(v).s)
          [] sel.op = "NoMatch" -> isA("String") /\ ~Regex_matches(sel.re, Unwrap(v).s)
          [] sel.op = "Ne" -> isA("Int64") /\ Unwrap(v).n # sel.n
          [] sel.op = "Inside" -> isA("Int64") /\ Range_contains(sel.range, Unwrap(v).n)
          [] sel.op = "Outside" -> isA("Int64") /\ ~Range_contains(sel.range, Unwrap(v).n)
          [] sel.op = "IsTrue" -> isA("Bool") /\ Unwrap(v).b
          [] sel.op = "IsFalse" -> isA("Bool") /\ ~Unwrap(v).b

(***************************************************************************)
(* engine/src/accum.rs: Count and the digest.  A TDigest is modelled by    *)
(* the sorted sequence of the values it has absorbed.                      *)
(***************************************************************************)
Count_default == 0
Count_insert(c) == c + 1

RECURSIVE SumSeq(_)
SumSeq(s) == IF s = <<>> THEN 0 ELSE s[1] + SumSeq(Tail(s))

\* Window::bins(): ring[first..] chained with ring[..first], where
\* first = i + 1 % len parses as i + (1 % len).
Window_bins_first(w) == w.i + (1 % Len(w.ring))

\* Variant of bins() that splits the ring at i.
Window_bins_from_current(w) ==
    SubSeq(w.ring, w.i + 1, Len(w.ring)) \o SubSeq(w.ring, 1, w.i)

Window_bins(w) ==
    LET len == Len(w.ring)
        first == Window_bins_first(w)
    IN  SubSeq(w.ring, first + 1, len) \o SubSeq(w.ring, 1, first)

\* bins().merge().extract() for a Window<Count>.
Count_merge_bins(w) == SumSeq(Window_bins(w))

\* Window::minutes(): bin_width.multiply(len).minutes(), as a rational.
Duration_minutes(d) ==
    CASE d.unit = "Seconds" -> RNorm(d.n, 60)
      [] d.unit = "Minutes" -> Rat(d.n)
      [] d.unit = "Hours"   -> Rat(d.n * 60)
      [] d.unit = "Days"    -> Rat(d.n * 24 * 60)
      [] d.unit = "Weeks"   -> Rat(d.n * 7 * 24 * 60)

Window_minutes(w) == Duration_minutes([w.bin_width EXCEPT !.n = @ * Len(w.ring)])

TDigest_default == <<>>

\* TDigest::merge_sorted(vec![v]).
TDigest_merge_sorted(d, v) ==
    LET below == SelectSeq(d, LAMBDA x : RLe(x, v))
        above == SelectSeq(d, LAMBDA x : ~RLe(x, v))
    IN  below \o <<v>> \o above

(***************************************************************************)
(* engine/src/processor/source.rs: MetricSource and SourceProcessor.       *)
(* insert yields the processor it leaves and the values passed to f.       *)
(***************************************************************************)
SourceTag(name) == [kind |-> "Tag", name |-> name]
SourceDuration == [kind |-> "Duration"]
SourceSelfDuration == [kind |-> "SelfDuration"]
SourceTagExcept(tag, key) == [kind |-> "TagExcept", tag |-> tag, key |-> key]
SourceRate(select) == [kind |-> "Rate", select |-> select]
SourceCount(window) == [kind |-> "Count", window |-> window]

SourceProcessor_new(t, config) ==
    IF config.kind = "Count"
    THEN [kind |-> "Count", window |-> Window_new(t, Count_default, config.window),
          count |-> 0]
    ELSE config

\* update yields an Option<SourceProcessor>; there is no arm for Duration.
SourceProcessor_update(p, t, config) ==
    CASE p.kind = "Tag" /\ config.kind = "Tag" /\ config.name = p.name -> Some(p)
      [] p.kind = "TagExcept" /\ config.kind = "TagExcept"
            /\ config.tag = p.tag /\ config.key = p.key -> Some(p)
      [] p.kind = "SelfDuration" /\ config.kind = "SelfDuration" -> Some(p)
      [] p.kind = "Rate" /\ config.kind = "Rate" /\ config.select = p.select -> Some(p)
      [] p.kind = "Count" /\ config.kind = "Count"
            /\ Window_compatible_with(p.window, config.window) -> Some(p)
      [] OTHER -> None

\* SourceState: Some([window, count]) for Count, None otherwise.
SourceProcessor_save(p) ==
    IF p.kind = "Count" THEN Some([window |-> p.window, count |-> p.count]) ELSE None

SourceProcessor_load(t, state, config) ==
    IF /\ config.kind = "Count"
       /\ IsSome(state)
       /\ to_time_delta(config.window.bin_width) = Window_bin_width(Unwrap(state).window)
       /\ config.window.num_bins = Window_num_bins(Unwrap(state).window)
    THEN [kind |-> "Count", window |-> Unwrap(state).window, count |-> Unwrap(state).count]
    ELSE SourceProcessor_new(t, config)

Clamp(x, hi) == Min(Max(x, 0), hi)

\* The fold of the SelfDuration source over the children from index k on.
RECURSIVE SelfDuration_fold(_, _, _, _, _)
SelfDuration_fold(span_end_time, children, k, sum, max_end_time) ==
    IF k > Len(children) THEN sum
    ELSE LET child == children[k]
             child_end_time == child.start_time + child.duration
         IN  SelfDuration_fold(span_end_time, children, k + 1,
                 sum - child.duration
                     + Clamp(max_end_time - child.start_time, child.duration)
                     + Clamp(child_end_time - span_end_time, child.duration)
                     - Clamp(max_end_time - span_end_time, child.duration),
                 Max(max_end_time, child_end_time))

SelfDuration(span, children) ==
    SelfDuration_fold(span.start_time + span.duration, children, 1,
                      span.duration, span.start_time)

TagExcept(span, children, name, key) ==
    LET n == TagValue_as_int(FindTag(span.tags, name))
        id == FindTag(span.tags, key)
        keep(c) == IsSome(id) =>
                      LET ck == FindTag(c.tags, key)
                      IN  IsSome(ck) => Unwrap(ck) = Unwrap(id)
        val(c) == TagValue_as_int(FindTag(c.tags, name))
        cn == SumSeq([k \in 1..Len(children) |->
                        IF keep(children[k]) /\ IsSome(val(children[k]))
                        THEN Unwrap(val(children[k])) ELSE 0])
    IN  IF IsSome(n) THEN <<Rat(Unwrap(n) - cn)>> ELSE <<>>

\* Variant of the output closure that reads the current bin only.
Count_rate_current(w) == RDiv(Rat(Window_current(w)), Window_minutes(w))

\* The output closure of the Count source: the sum of the bins per minute.
Count_rate(w) == RDiv(Rat(Count_merge_bins(w)), Window_minutes(w))

SourceProcessor_insert(p, t, span, parent, children) ==
    CASE p.kind = "Duration" -> [source |-> p, values |-> <<Rat(span.duration)>>]
      [] p.kind = "SelfDuration" ->
            [source |-> p, values |-> <<Rat(SelfDuration(span, children))>>]
      [] p.kind = "Tag" ->
            LET n == TagValue_as_int(FindTag(span.tags, p.name))
            IN  [source |-> p,
                 values |-> IF IsSome(n) THEN <<Rat(Unwrap(n))>> ELSE <<>>]
      [] p.kind = "TagExcept" ->
            [source |-> p, values |-> TagExcept(span, children, p.tag, p.key)]
      [] p.kind = "Rate" ->
            [source |-> p,
             values |-> <<IF SpanSelector_matches(p.select, span, parent)
                          THEN Rat(1) ELSE Rat(0)>>]
      [] p.kind = "Count" ->
            LET r == Window_advance_with_init(p.window, t,
                         ConstInit(Count_default,
                                   WindowConfig(p.window.bin_width, Len(p.window.ring))),
                         Count_rate)
                w == r.window
            IN  [source |-> [p EXCEPT !.count = @ + 1,
                                      !.window = [w EXCEPT !.ring[w.i + 1] =
                                                     Count_insert(@)]],
                 values |-> r.outputs]

(***************************************************************************)
(* engine/src/processor/mean_stddev.rs: MeanStddevProcessor.               *)
(***************************************************************************)
MeanStddevProcessor_new(config) ==
    IF config.algorithm = "CountSum"
    THEN [alg |-> "CountSum", count |-> 0, sum |-> Rat(0)]
    ELSE [alg |-> "Welford", acc |-> Welford_default]

MeanStddevProcessor_update(p, config) ==
    IF p.alg = config.algorithm THEN p ELSE MeanStddevProcessor_new(config)

MeanStddevProcessor_load(state, config) ==
    IF config.algorithm = state.alg THEN state ELSE MeanStddevProcessor_new(config)

MeanStddevProcessor_save(p) == p

MeanStddevProcessor_insert(p, value) ==
    IF p.alg = "CountSum"
    THEN [p EXCEPT !.count = @ + 1, !.sum = RAdd(@, value)]
    ELSE [p EXCEPT !.acc = Welford_insert(@, value)]

(***************************************************************************)
(* engine/src/processor/histogram.rs: HistogramProcessor.                  *)
(***************************************************************************)
HistogramProcessor_new(config) ==
    [bounds |-> config.bounds,
     bins |-> [k \in 1..Len(config.bounds) |-> 0],
     count |-> 0,
     sum |-> Rat(0)]

HistogramProcessor_load(state, config) ==
    [bounds |-> config.bounds, bins |-> state.bins,
     count |-> state.count, sum |-> state.sum]

HistogramProcessor_save(p) == [bins |-> p.bins, count |-> p.count, sum |-> p.sum]

HistogramProcessor_update(p, config) ==
    IF p.bounds = config.bounds
    THEN [bounds |-> config.bounds, bins |-> p.bins, count |-> p.count, sum |-> p.sum]
    ELSE HistogramProcessor_new(config)

\* zip(bounds, bins).take_while(value <= bound): the leading pairs that pass.
HistogramProcessor_insert(p, value) ==
    LET n == Min(Len(p.bounds), Len(p.bins))
        taken(k) == \A j \in 1..k : RLe(value, Rat(p.bounds[j]))
    IN  [p EXCEPT !.count = @ + 1,
                  !.sum = RAdd(@, value),
                  !.bins = [k \in 1..Len(p.bins) |->
                               IF k <= n /\ taken(k) THEN p.bins[k] + 1 ELSE p.bins[k]]]

\* sample: the (bound, count) pairs of zip(bounds, bins) behind the buckets.
HistogramProcessor_sample_buckets(p) ==
    [k \in 1..Min(Len(p.bounds), Len(p.bins)) |-> [le |-> p.bounds[k], n |-> p.bins[k]]]

(***************************************************************************)
(* engine/src/processor/summary.rs: SummaryProcessor.                      *)
(***************************************************************************)
SummaryProcessor_new(t, config) ==
    [percentiles |-> config.percentiles,
     window |-> Window_new(t, TDigest_default, config.window),
     count |-> 0,
     sum |-> Rat(0)]

SummaryProcessor_update(p, t, config) ==
    IF Window_compatible_with(p.window, config.window)
    THEN [percentiles |-> config.percentiles, window |-> p.window,
          count |-> p.count, sum |-> p.sum]
    ELSE SummaryProcessor_new(t, config)

SummaryProcessor_load(t, state, config) ==
    IF Window_compatible_with(state.window, config.window)
    THEN [percentiles |-> config.percentiles, window |-> state.window,
          count |-> state.count, sum |-> state.sum]
    ELSE SummaryProcessor_new(t, config)

SummaryProcessor_save(p) == [window |-> p.window, count |-> p.count, sum |-> p.sum]

SummaryProcessor_insert(p, value) ==
    [p EXCEPT !.count = @ + 1,
              !.sum = RAdd(@, value),
              !.window.ring[p.window.i + 1] = TDigest_merge_sorted(@, value)]

\* window.bins().merge() for a Window<TDigest>: the digests of the bins
\* folded into one, from bin k of bins() on.
RECURSIVE TDigest_merge_all(_, _)
TDigest_merge_all(d, values) ==
    IF values = <<>> THEN d
    ELSE TDigest_merge_all(TDigest_merge_sorted(d, Head(values)), Tail(values))

RECURSIVE TDigest_merge_from(_, _, _)
TDigest_merge_from(bins, k, d) ==
    IF k > Len(bins) THEN d
    ELSE TDigest_merge_from(bins, k + 1, TDigest_merge_all(d, bins[k]))

\* The digest that sample estimates the quantiles from.
SummaryProcessor_sample_digest(p) ==
    TDigest_merge_from(Window_bins(p.window), 1, TDigest_default)

(***************************************************************************)
(* engine/src/processor/stats.rs: StatsProcessor.  Every field of a        *)
(* StatsConfig, StatsState and StatsProcessor is an Option.                *)
(***************************************************************************)
StatsConfig(anomaly_score, mean_stddev, summary, histogram) ==
    [anomaly_score |-> anomaly_score, mean_stddev |-> mean_stddev,
     summary |-> summary, histogram |-> histogram]

StatsProcessor_new(t, config) ==
    [anomaly_score |-> IF IsSome(config.anomaly_score)
                       THEN Some(AnomalyScoreProcessor_new(t, Unwrap(config.anomaly_score)))
                       ELSE None,
     mean_stddev |-> IF IsSome(config.mean_stddev)
                     THEN Some(MeanStddevProcessor_new(Unwrap(config.mean_stddev)))
                     ELSE None,
     summary |-> IF IsSome(config.summary)
                 THEN Some(SummaryProcessor_new(t, Unwrap(config.summary)))
                 ELSE None,
     histogram |-> IF IsSome(config.histogram)
                   THEN Some(HistogramProcessor_new(Unwrap(config.histogram)))
                   ELSE None]

StatsProcessor_update(p, t, config) ==
    [anomaly_score |->
        IF ~IsSome(config.anomaly_score) THEN None
        ELSE IF IsSome(p.anomaly_score)
        THEN Some(AnomalyScoreProcessor_update(Unwrap(p.anomaly_score), t,
                                               Unwrap(config.anomaly_score)))
        ELSE Some(AnomalyScoreProcessor_new(t, Unwrap(config.anomaly_score))),
     mean_stddev |->
        IF ~IsSome(config.mean_stddev) THEN None
        ELSE IF IsSome(p.mean_stddev)
        THEN Some(MeanStddevProcessor_update(Unwrap(p.mean_stddev),
                                             Unwrap(config.mean_stddev)))
        ELSE Some(MeanStddevProcessor_new(Unwrap(config.mean_stddev))),
     summary |->
        IF ~IsSome(config.summary) THEN None
        ELSE IF IsSome(p.summary)
        THEN Some(SummaryProcessor_update(Unwrap(p.summary), t, Unwrap(config.summary)))
        ELSE Some(SummaryProcessor_new(t, Unwrap(config.summary))),
     histogram |->
        IF ~IsSome(config.histogram) THEN None
        ELSE IF IsSome(p.histogram)
        THEN Some(HistogramProcessor_update(Unwrap(p.histogram),
                                            Unwrap(config.histogram)))
        ELSE Some(HistogramProcessor_new(Unwrap(config.histogram)))]

StatsProcessor_load(t, state, config) ==
    [anomaly_score |->
        IF ~IsSome(config.anomaly_score) THEN None
        ELSE IF IsSome(state.anomaly_score)
        THEN Some(AnomalyScoreProcessor_load(t, Unwrap(state.anomaly_score),
                                             Unwrap(config.anomaly_score)))
        ELSE Some(AnomalyScoreProcessor_new(t, Unwrap(config.anomaly_score))),
     mean_stddev |->
        IF ~IsSome(config.mean_stddev) THEN None
        ELSE IF IsSome(state.mean_stddev)
        THEN Some(MeanStddevProcessor_load(Unwrap(state.mean_stddev),
                                           Unwrap(config.mean_stddev)))
        ELSE Some(MeanStddevProcessor_new(Unwrap(config.mean_stddev))),
     summary |->
        IF ~IsSome(config.summary) THEN None
        ELSE IF IsSome(state.summary)
        THEN Some(SummaryProcessor_load(t, Unwrap(state.summary), Unwrap(config.summary)))
        ELSE Some(SummaryProcessor_new(t, Unwrap(config.summary))),
     histogram |->
        IF ~IsSome(config.histogram) THEN None
        ELSE IF IsSome(state.histogram)
        THEN Some(HistogramProcessor_load(Unwrap(state.histogram),
                                          Unwrap(config.histogram)))
        ELSE Some(HistogramProcessor_new(Unwrap(config.histogram)))]

StatsProcessor_save(p) ==
    [anomaly_score |-> IF IsSome(p.anomaly_score)
                       THEN Some(AnomalyScoreProcessor_save(Unwrap(p.anomaly_score)))
                       ELSE None,
     mean_stddev |-> IF IsSome(p.mean_stddev)
                     THEN Some(MeanStddevProcessor_save(Unwrap(p.mean_stddev)))
                     ELSE None,
     summary |-> IF IsSome(p.summary)
                 THEN Some(SummaryProcessor_save(Unwrap(p.summary)))
                 ELSE None,
     histogram |-> IF IsSome(p.histogram)
                   THEN Some(HistogramProcessor_save(Unwrap(p.histogram)))
                   ELSE None]

StatsProcessor_insert(p, t, value) ==
    [anomaly_score |-> IF IsSome(p.anomaly_score)
                       THEN Some(AnomalyScoreProcessor_insert(Unwrap(p.anomaly_score),
                                                              t, value))
                       ELSE None,
     mean_stddev |-> IF IsSome(p.mean_stddev)
                     THEN Some(MeanStddevProcessor_insert(Unwrap(p.mean_stddev), value))
                     ELSE None,
     summary |-> IF IsSome(p.summary)
                 THEN Some(SummaryProcessor_insert(Unwrap(p.summary), value))
                 ELSE None,
     histogram |-> IF IsSome(p.histogram)
                   THEN Some(HistogramProcessor_insert(Unwrap(p.histogram), value))
                   ELSE None]

(***************************************************************************)
(* engine/src/processor/metric.rs: MetricProcessor.                        *)
(***************************************************************************)
MetricConfig(source, stats) == [source |-> source, stats |-> stats]

MetricProcessor_new(t, config) ==
    [source |-> SourceProcessor_new(t, config.source),
     stats |-> StatsProcessor_new(t, config.stats)]

MetricProcessor_update(p, t, config) ==
    LET source == SourceProcessor_update(p.source, t, config.source)
    IN  IF IsSome(source)
        THEN [source |-> Unwrap(source),
              stats |-> StatsProcessor_update(p.stats, t, config.stats)]
        ELSE MetricProcessor_new(t, config)

MetricProcessor_load(t, state, config) ==
    [source |-> SourceProcessor_load(t, state.source, config.source),
     stats |-> StatsProcessor_load(t, state.stats, config.stats)]

MetricProcessor_save(p) ==
    [source |-> SourceProcessor_save(p.source), stats |-> StatsProcessor_save(p.stats)]

\* stats.insert(t, v) for each value the source passes to its closure, in order.
RECURSIVE StatsProcessor_insert_all(_, _, _)
StatsProcessor_insert_all(stats, t, values) ==
    IF values = <<>> THEN stats
    ELSE StatsProcessor_insert_all(StatsProcessor_insert(stats, t, Head(values)),
                                   t, Tail(values))

MetricProcessor_insert(p, t, span, parent, children) ==
    LET r == SourceProcessor_insert(p.source, t, span, parent, children)
    IN  [source |-> r.source, stats |-> StatsProcessor_insert_all(p.stats, t, r.values)]

(***************************************************************************)
(* engine/src/processor/span.rs: SpanProcessor.  groups maps a key tuple   *)
(* (a function from the present SpanKeys to their values) to the group's   *)
(* MetricsProcessor [last_seen, metrics].                                  *)
(***************************************************************************)
SpanConfig(key, metrics) == [key |-> key, metrics |-> metrics]

Days(n) == n * 24 * 60 * 60

SpanProcessor_new(config) == [config |-> config, groups |-> << >>]

\* Variant of update with the key comparison inverted.
SpanProcessor_update_inverted(p, t, config) ==
    [config |-> config,
     groups |->
        IF p.config.key # config.key
        THEN [key \in DOMAIN p.groups |->
                [p.groups[key] EXCEPT !.metrics =
                    [name \in DOMAIN config.metrics |->
                        IF name \in DOMAIN p.groups[key].metrics
                        THEN MetricProcessor_update(p.groups[key].metrics[name], t,
                                                    config.metrics[name])
                        ELSE MetricProcessor_new(t, config.metrics[name])]]]
        ELSE << >>]

\* Variant of update that updates the metrics a group has and adds none.
SpanProcessor_update_kept(p, t, config) ==
    [config |-> config,
     groups |->
        IF p.config.key = config.key
        THEN [key \in DOMAIN p.groups |->
                [p.groups[key] EXCEPT !.metrics =
                    [name \in DOMAIN p.groups[key].metrics \cap DOMAIN config.metrics |->
                        MetricProcessor_update(p.groups[key].metrics[name], t,
                                               config.metrics[name])]]]
        ELSE << >>]

SpanProcessor_update(p, t, config) ==
    [config |-> config,
     groups |->
        IF p.config.key = config.key
        THEN [key \in DOMAIN p.groups |->
                [p.groups[key] EXCEPT !.metrics =
                    [name \in DOMAIN config.metrics |->
                        IF name \in DOMAIN p.groups[key].metrics
                        THEN MetricProcessor_update(p.groups[key].metrics[name], t,
                                                    config.metrics[name])
                        ELSE MetricProcessor_new(t, config.metrics[name])]]]
        ELSE << >>]

\* A saved group is MetricsState::V1 [last_seen, metrics] or the legacy
\* MetricsState::V0 [metrics].
SpanProcessor_save(p) ==
    [groups |-> [key \in DOMAIN p.groups |->
                    [ver |-> "V1",
                     last_seen |-> p.groups[key].last_seen,
                     metrics |-> [name \in DOMAIN p.groups[key].metrics |->
                                     MetricProcessor_save(p.groups[key].metrics[name])]]]]

\* Variant of load that stamps every loaded group with the load time.
SpanProcessor_load_restamp(t, state, config) ==
    [config |-> config,
     groups |-> [key \in DOMAIN state.groups |->
        [last_seen |-> t,
         metrics |-> [name \in DOMAIN config.metrics |->
            IF name \in DOMAIN state.groups[key].metrics
            THEN MetricProcessor_load(t, state.groups[key].metrics[name],
                                      config.metrics[name])
            ELSE MetricProcessor_new(t, config.metrics[name])]]]]

SpanProcessor_load(t, state, config) ==
    [config |-> config,
     groups |-> [key \in DOMAIN state.groups |->
        LET s == state.groups[key]
        IN  [last_seen |-> IF s.ver = "V1" THEN s.last_seen ELSE t - Days(29),
             metrics |-> [name \in DOMAIN config.metrics |->
                IF name \in DOMAIN s.metrics
                THEN MetricProcessor_load(t, s.metrics[name], config.metrics[name])
                ELSE MetricProcessor_new(t, config.metrics[name])]]]]

\* Variant of the key tuple that leaves out the keys taken from the parent.
SpanProcessor_key_current(config, span, parent) ==
    [k \in {k \in config.key : k.rel = "Current" /\ IsSome(SpanKey_get(k, span, parent))} |->
        Unwrap(SpanKey_get(k, span, parent))]

\* The key tuple of a span: the configured keys whose extraction is present.
SpanProcessor_key(config, span, parent) ==
    [k \in {k \in config.key : IsSome(SpanKey_get(k, span, parent))} |->
        Unwrap(SpanKey_get(k, span, parent))]

SpanProcessor_insert(p, t, span, parent, children) ==
    LET key == SpanProcessor_key(p.config, span, parent)
        entry == IF key \in DOMAIN p.groups
                 THEN p.groups[key]
                 ELSE [last_seen |-> t,
                       metrics |-> [name \in DOMAIN p.config.metrics |->
                                       MetricProcessor_new(t, p.config.metrics[name])]]
        group == [entry EXCEPT !.metrics =
                    [name \in DOMAIN entry.metrics |->
                        MetricProcessor_insert(entry.metrics[name], t, span, parent,
                                               children)]]
    IN  [p EXCEPT !.groups =
            [k \in DOMAIN p.groups \cup {key} |-> IF k = key THEN group ELSE p.groups[k]]]

\* Variant of cleanup that also drops the groups last seen exactly at t.
SpanProcessor_cleanup_strict(p, t) ==
    [p EXCEPT !.groups =
        [key \in {k \in DOMAIN p.groups : p.groups[k].last_seen > t} |-> p.groups[key]]]

SpanProcessor_cleanup(p, t) ==
    [p EXCEPT !.groups =
        [key \in {k \in DOMAIN p.groups : p.groups[k].last_seen >= t} |-> p.groups[key]]]

(***************************************************************************)
(* engine/src/processor/trace.rs: TraceProcessor.                          *)
(***************************************************************************)
Rule(select, config) == [select |-> select, config |-> config]
TraceConfig(rules, configs) == [rules |-> rules, configs |-> configs]

TraceProcessor_new(config) ==
    [rules |-> config.rules,
     groups |-> [name \in DOMAIN config.configs |-> SpanProcessor_new(config.configs[name])]]

TraceProcessor_update(p, t, config) ==
    [rules |-> config.rules,
     groups |-> [name \in DOMAIN config.configs |->
                    IF name \in DOMAIN p.groups
                    THEN SpanProcessor_update(p.groups[name], t, config.configs[name])
                    ELSE SpanProcessor_new(config.configs[name])]]

TraceProcessor_load(t, state, config) ==
    [rules |-> config.rules,
     groups |-> [name \in DOMAIN config.configs |->
                    IF name \in DOMAIN state.groups
                    THEN SpanProcessor_load(t, state.groups[name], config.configs[name])
                    ELSE SpanProcessor_new(config.configs[name])]]

TraceProcessor_save(p) ==
    [groups |-> [name \in DOMAIN p.groups |-> SpanProcessor_save(p.groups[name])]]

\* spans: the last span of the trace with the given id (a BTreeMap collect).
Trace_span(trace, id) ==
    LET hits == {k \in 1..Len(trace) : trace[k].span_id = id}
    IN  IF hits = {} THEN None
        ELSE Some(trace[CHOOSE k \in hits : \A j \in hits : k >= j])

\* parents: the span named by the first reference, when it is in the trace.
Trace_parent(trace, span) ==
    IF span.references = <<>> THEN None ELSE Trace_span(trace, span.references[1])

\* children: the spans whose first reference names the id, in trace order.
Trace_children(trace, id) ==
    SelectSeq(trace, LAMBDA s : s.references # <<>> /\ s.references[1] = id)

\* Variant of find that takes the last matching rule of the list.
Rules_find_last(rules, span, parent) ==
    LET hits == {k \in 1..Len(rules) : SpanSelector_matches(rules[k].select, span, parent)}
    IN  IF hits = {} THEN None
        ELSE Some(rules[CHOOSE k \in hits : \A j \in hits : k >= j])

\* rules.iter().find(|rule| rule.select.matches(span, parent))
Rules_find(rules, span, parent) ==
    LET hits == {k \in 1..Len(rules) : SpanSelector_matches(rules[k].select, span, parent)}
    IN  IF hits = {} THEN None
        ELSE Some(rules[CHOOSE k \in hits : \A j \in hits : k <= j])

\* The body of the for loop of insert for one span, over the outer lists from k on.
RECURSIVE TraceProcessor_insert_span(_, _, _, _, _)
TraceProcessor_insert_span(p, t, trace, span, k) ==
    IF k > Len(p.rules) THEN p
    ELSE LET parent == Trace_parent(trace, span)
             children == Trace_children(trace, span.span_id)
             rule == Rules_find(p.rules[k], span, parent)
             p1 == IF IsSome(rule) /\ Unwrap(rule).config \in DOMAIN p.groups
                   THEN [p EXCEPT !.groups[Unwrap(rule).config] =
                            SpanProcessor_insert(@, t, span, parent, children)]
                   ELSE p
         IN  TraceProcessor_insert_span(p1, t, trace, span, k + 1)

RECURSIVE TraceProcessor_insert_from(_, _, _, _)
TraceProcessor_insert_from(p, t, trace, s) ==
    IF s > Len(trace) THEN p
    ELSE TraceProcessor_insert_from(TraceProcessor_insert_span(p, t, trace, trace[s], 1),
                                    t, trace, s + 1)

TraceProcessor_insert(p, t, trace) == TraceProcessor_insert_from(p, t, trace, 1)

TraceProcessor_cleanup(p, t) ==
    [p EXCEPT !.groups = [name \in DOMAIN p.groups |-> SpanProcessor_cleanup(p.groups[name], t)]]

(***************************************************************************)
(* sample: the series a processor reports.  Every call of the metric       *)
(* closure is modelled by its MetricArgs; the sampled value is left out.   *)
(***************************************************************************)
MetricArgs(suffix, type, labels) ==
    [metric_suffix |-> suffix, metric_type |-> type, labels |-> labels]

NoLabels == << >>

SourceProcessor_sample(p) ==
    IF p.kind = "Count"
    THEN {MetricArgs(Some("total"), "source_count", NoLabels)}
    ELSE {}

MeanStddevProcessor_sample(p) ==
    IF p.alg = "CountSum"
    THEN {MetricArgs(Some(s), "count_sum", NoLabels) : s \in {"count", "sum"}}
    ELSE {MetricArgs(Some(s), "welford", NoLabels) : s \in {"count", "mean", "m2"}}

\* The le label is the bound, formatted without decimals.
HistogramProcessor_sample(p) ==
    {MetricArgs(Some(s), "histogram", NoLabels) : s \in {"count", "sum"}}
    \cup {MetricArgs(Some("buckets"), "histogram", [n \in {"le"} |-> p.bounds[k]]) :
            k \in 1..Min(Len(p.bounds), Len(p.bins))}

\* The quantile label is the percentile, formatted with two decimals.
SummaryProcessor_sample(p) ==
    {MetricArgs(Some(s), "summary", NoLabels) : s \in {"count", "sum"}}
    \cup {MetricArgs(None, "summary", [n \in {"quantile"} |-> p.percentiles[k]]) :
            k \in 1..Len(p.percentiles)}

AnomalyScoreProcessor_sample(p) ==
    {MetricArgs(Some(s), "anomaly_score", [n \in {"immediate"} |-> i]) :
        s \in {"count", "mean", "ci"}, i \in DOMAIN p.immediate}
    \cup {MetricArgs(Some(s), "anomaly_score", [n \in {"reference"} |-> r]) :
            s \in {"count", "mean", "ci"}, r \in DOMAIN p.reference}
    \cup {MetricArgs(Some("score"), "anomaly_score",
                     [n \in {"immediate", "reference"} |->
                         IF n = "immediate" THEN i ELSE r]) :
            i \in DOMAIN p.immediate, r \in DOMAIN p.reference}

StatsProcessor_sample(p) ==
    (IF IsSome(p.anomaly_score)
     THEN AnomalyScoreProcessor_sample(Unwrap(p.anomaly_score)) ELSE {})
    \cup (IF IsSome(p.mean_stddev)
          THEN MeanStddevProcessor_sample(Unwrap(p.mean_stddev)) ELSE {})
    \cup (IF IsSome(p.summary) THEN SummaryProcessor_sample(Unwrap(p.summary)) ELSE {})
    \cup (IF IsSome(p.histogram)
          THEN HistogramProcessor_sample(Unwrap(p.histogram)) ELSE {})

MetricProcessor_sample(p) ==
    SourceProcessor_sample(p.source) \cup StatsProcessor_sample(p.stats)

\* The MetricArgs of trace.rs: the metric name is trace_<name>[_<suffix>].
SpanProcessor_sample(p) ==
    UNION {UNION {
        {[metric_name |-> IF IsSome(a.metric_suffix)
                          THEN "trace_" \o name \o "_" \o Unwrap(a.metric_suffix)
                          ELSE "trace_" \o name,
          metric_type |-> a.metric_type,
          labels |-> a.labels,
          key |-> key] : a \in MetricProcessor_sample(p.groups[key].metrics[name])} :
        name \in DOMAIN p.groups[key].metrics} : key \in DOMAIN p.groups}

\* The (MetricArgs, config name) pairs that sample hands to its closure.
TraceProcessor_sample(p) ==
    UNION {{<<a, name>> : a \in SpanProcessor_sample(p.groups[name])} :
              name \in DOMAIN p.groups}

(***************************************************************************)
(* engine/src/metrics.rs: Metrics, the buffer of sample points.  A series  *)
(* is its label map, held as the sequence of <<name, value>> pairs in the  *)
(* order of the BTreeMap (by label name); the buffer maps a series to the  *)
(* timestamps of its samples in push order.  Sample values are left out.   *)
(***************************************************************************)
\* The strings that occur in labels, in the byte order Rust compares them by.
StringOrder ==
    <<"__name__", "a", "b", "config", "count_sum", "default", "metric_type",
      "service_name", "source_count", "trace_calls_count", "trace_calls_sum",
      "trace_calls_total">>

StrRank(s) == CHOOSE i \in 1..Len(StringOrder) : StringOrder[i] = s

StrLess(a, b) == StrRank(a) < StrRank(b)

\* Ord for BTreeMap<String, String>: lexicographic over the sorted entries.
LabelsLess(x, y) ==
    \E i \in 1..(Min(Len(x), Len(y)) + 1) :
        /\ \A j \in 1..(i - 1) : x[j] = y[j]
        /\ \/ i = Len(x) + 1 /\ i <= Len(y)
           \/ /\ i <= Len(x) /\ i <= Len(y)
              /\ \/ StrLess(x[i][1], y[i][1])
                 \/ x[i][1] = y[i][1] /\ StrLess(x[i][2], y[i][2])

\* The entries of a label map in BTreeMap order.
RECURSIVE SortLabels(_)
SortLabels(pairs) ==
    IF pairs = {} THEN <<>>
    ELSE LET first == CHOOSE p \in pairs : \A q \in pairs : q = p \/ StrLess(p[1], q[1])
         IN  <<first>> \o SortLabels(pairs \ {first})

\* TagValue to label value; an Int64 is held as the number its text shows.
TagValue_label(v) ==
    CASE v.ty = "String" -> v.s
      [] v.ty = "Bool" -> IF v.b THEN "true" ELSE "false"
      [] OTHER -> v.n

\* label(): the tag names of the configurations here are alphanumeric and
\* start with a letter, so they pass the sanitising unchanged.
SpanKey_label(key) ==
    LET name == CASE key.key.kind = "OperationName" -> "operation_name"
                  [] key.key.kind = "ServiceName" -> "service_name"
                  [] key.key.kind = "Duration" -> "duration"
                  [] OTHER -> key.key.name
    IN  IF key.rel = "Parent" THEN "parent_" \o name ELSE name

Metrics_new == << >>

Metrics_is_empty(m) == DOMAIN m = {}

\* len: the number of samples in the buffer, over all series.
RECURSIVE Metrics_len_of(_, _)
Metrics_len_of(m, keys) ==
    IF keys = {} THEN 0
    ELSE LET k == CHOOSE k \in keys : TRUE
         IN  Len(m[k]) + Metrics_len_of(m, keys \ {k})

Metrics_len(m) == Metrics_len_of(m, DOMAIN m)

\* The position of series k in the iteration order of the buffer, from 0.
Metrics_index(m, k) == Cardinality({j \in DOMAIN m : LabelsLess(j, k)})

\* A split that lets one series more into the request.
Metrics_split_off_more(m, max) ==
    LET taken == {k \in DOMAIN m : Metrics_index(m, k) <= max}
    IN  [taken |-> [k \in taken |-> m[k]],
         rest  |-> [k \in DOMAIN m \ taken |-> m[k]]]

\* split_off(max): the first max series in map order leave the buffer.
Metrics_split_off(m, max) ==
    LET taken == {k \in DOMAIN m : Metrics_index(m, k) < max}
    IN  [taken |-> [k \in taken |-> m[k]],
         rest  |-> [k \in DOMAIN m \ taken |-> m[k]]]

Metrics_insert(m, labels, t) ==
    [k \in DOMAIN m \cup {labels} |->
        IF k \in DOMAIN m THEN (IF k = labels THEN Append(m[k], t) ELSE m[k]) ELSE <<t>>]

\* add_metric: the label map of a sample, then insert.
Metrics_labels(metric, config_name) ==
    SortLabels({<<"__name__", metric.metric_name>>,
                <<"metric_type", metric.metric_type>>,
                <<"config", config_name>>}
               \cup {<<SpanKey_label(k), TagValue_label(metric.key[k])>> :
                        k \in DOMAIN metric.key}
               \cup {<<n, metric.labels[n]>> : n \in DOMAIN metric.labels})

Metrics_add_metric(m, metric, config_name, t) ==
    Metrics_insert(m, Metrics_labels(metric, config_name), t)

(***************************************************************************)
(* The window under test.  Its bins hold the bin start that init was       *)
(* called with, and output reports the window it is called on.             *)
(***************************************************************************)
BinStarts == 0..(MaxTime + MaxBinWidth * (MaxNumBins + 1))
InitId == [s \in BinStarts |-> s]
OutputId(w) == w

WindowConfigs ==
    {WindowConfig(Seconds(bw), nb) : bw \in 1..MaxBinWidth, nb \in 1..MaxNumBins}

NoWindow == [i |-> 0, start |-> 0, bin_width |-> Seconds(1), ring |-> <<0>>]
NoWop == [op |-> "none", t |-> 0, pre |-> NoWindow, outputs |-> <<>>]
NoAsp == AnomalyScoreProcessor_new(0, AnomalyScoreConfig({}, {}, 0, 0))
NoAop == [op |-> "none", t |-> 0, pre |-> NoAsp, created |-> 0]
NoProc == [rules |-> <<>>, groups |-> << >>]
NoCfg == [rules |-> <<>>, configs |-> << >>]
NoPop == [op |-> "none", t |-> 0, pre |-> NoProc, config |-> NoCfg, trace |-> <<>>,
          n |-> 0, dropped |-> 0]
NoSd == [op |-> "none", span |-> <<>>, children |-> <<>>, values |-> <<>>]
NoOrch == [pc |-> "none"]
NoSel == [op |-> "none"]
NoWf == [op |-> "none"]
NoSrc == [op |-> "none"]
NoSpx == [op |-> "none"]
NoHgp == [op |-> "none"]
NoSmp == [op |-> "none"]
NoBoot == [op |-> "none"]
NoFl == [pc |-> "none"]
NoPg == [pc |-> "none"]

WInit ==
    /\ \E t \in Times, c \in WindowConfigs :
          /\ win = Window_new_init(t, InitId, c)
          /\ wop = [op |-> "new_init", t |-> t, pre |-> NoWindow, outputs |-> <<>>]
    /\ asp = NoAsp /\ ahist = <<>> /\ aop = NoAop
    /\ proc = NoProc /\ cfg = NoCfg /\ pop = NoPop
    /\ sd = NoSd /\ orch = NoOrch
    /\ selq = NoSel /\ wf = NoWf /\ src = NoSrc
    /\ spx = NoSpx /\ hgp = NoHgp /\ smp = NoSmp
    /\ boot = NoBoot /\ fl = NoFl /\ pg = NoPg

WAdvanceInit ==
    /\ \E t \in Times :
          /\ win' = Window_advance_init(win, t, InitId)
          /\ wop' = [op |-> "advance_init", t |-> t, pre |-> win, outputs |-> <<>>]
    /\ UNCHANGED <<asp, ahist, aop, proc, cfg, pop, sd, orch, selq, wf, src, spx, hgp, smp, boot, fl, pg>>

WAdvanceWith ==
    /\ \E t \in Times :
          LET r == Window_advance_with_init(win, t, InitId, OutputId)
          IN  /\ win' = r.window
              /\ wop' = [op |-> "advance_with", t |-> t, pre |-> win,
                         outputs |-> r.outputs]
    /\ UNCHANGED <<asp, ahist, aop, proc, cfg, pop, sd, orch, selq, wf, src, spx, hgp, smp, boot, fl, pg>>

WNext == WAdvanceInit \/ WAdvanceWith

SpecWindow == WInit /\ [][WNext]_vars

(***************************************************************************)
(* The anomaly-score processor under test: created at some time, then fed  *)
(* observations at arbitrary times.                                        *)
(***************************************************************************)
AInit ==
    /\ \E t \in Times :
          /\ asp = AnomalyScoreProcessor_new(t, AnomalyScoreConfig_default)
          /\ aop = [op |-> "new", t |-> t, pre |-> NoAsp, created |-> t]
    /\ ahist = <<>>
    /\ win = NoWindow /\ wop = NoWop
    /\ proc = NoProc /\ cfg = NoCfg /\ pop = NoPop
    /\ sd = NoSd /\ orch = NoOrch
    /\ selq = NoSel /\ wf = NoWf /\ src = NoSrc
    /\ spx = NoSpx /\ hgp = NoHgp /\ smp = NoSmp
    /\ boot = NoBoot /\ fl = NoFl /\ pg = NoPg

AInsert ==
    /\ Len(ahist) < MaxInserts
    /\ \E t \in Times, v \in Values :
          /\ asp' = AnomalyScoreProcessor_insert(asp, t, Rat(v))
          /\ ahist' = Append(ahist, [t |-> t, value |-> v])
          /\ aop' = [op |-> "insert", t |-> t, pre |-> asp, created |-> aop.created]
    /\ UNCHANGED <<win, wop, proc, cfg, pop, sd, orch, selq, wf, src, spx, hgp, smp, boot, fl, pg>>

\* sample: the processor is read, at a time not before its last insert.
ASample ==
    /\ aop.op # "sample"
    /\ \E t \in Times :
          /\ aop.t <= t
          /\ aop' = [op |-> "sample", t |-> t, pre |-> asp, created |-> aop.created]
    /\ UNCHANGED <<asp, ahist, win, wop, proc, cfg, pop, sd, orch, selq, wf, src, spx, hgp, smp, boot, fl, pg>>

ANext == AInsert \/ ASample

SpecAnomaly == AInit /\ [][ANext]_vars

(***************************************************************************)
(* The processor tree under test: the configurations it is run and         *)
(* updated with, and the traces inserted into it.                          *)
(***************************************************************************)
MaxProcTime == 2        \* insert, update, cleanup and load times: 0..MaxProcTime
MaxProcOps == 4         \* operations applied to the processor tree

PTimes == 0..MaxProcTime

CountSum == [algorithm |-> "CountSum"]
Welford == [algorithm |-> "Welford"]
HistogramConfig(bounds) == [bounds |-> bounds]
SummaryConfig(window, percentiles) == [window |-> window, percentiles |-> percentiles]

SmallWindow == WindowConfig(Seconds(2), 2)
ErrorSelector == SelAny(<<SelIsTrue(Current(SpanTag("error")))>>)

\* One metric per MetricSource variant.
Metrics0 ==
    [duration |-> MetricConfig(SourceDuration,
                     StatsConfig(None, Some(CountSum), None,
                                 Some(HistogramConfig(<<2, 5>>)))),
     self     |-> MetricConfig(SourceSelfDuration,
                     StatsConfig(None, Some(Welford), None, None)),
     bytes    |-> MetricConfig(SourceTag("bytes"),
                     StatsConfig(None, Some(CountSum), None, None)),
     busy     |-> MetricConfig(SourceTagExcept("busy", "thread"),
                     StatsConfig(None, None,
                                 Some(SummaryConfig(SmallWindow, <<50>>)), None)),
     errors   |-> MetricConfig(SourceRate(ErrorSelector),
                     StatsConfig(Some(AnomalyScoreConfig({"7d"}, {"5m"}, 0, 99)),
                                 None, None, None)),
     calls    |-> MetricConfig(SourceCount(SmallWindow),
                     StatsConfig(None, Some(CountSum), None, None))]

\* The same sources with some statistics disabled, replaced or extended.
Metrics1 ==
    [Metrics0 EXCEPT
        !.duration.stats.histogram = None,
        !.self.stats.mean_stddev = Some(CountSum),
        !.errors.stats.anomaly_score =
            Some(AnomalyScoreConfig({"7d", "30d"}, {"5m"}, 0, 99))]

DefaultRules == <<<<Rule(SelAll(<<>>), "default")>>>>

Cfg0 ==
    TraceConfig(DefaultRules,
                [default |-> SpanConfig({Current(ServiceName)}, Metrics0)])

Cfg1 ==
    TraceConfig(DefaultRules,
                [default |-> SpanConfig({Current(ServiceName)}, Metrics1)])

\* A changed key set for "default" and a second configuration for child spans.
Cfg2 ==
    TraceConfig(DefaultRules \o <<<<Rule(SelHas(Parent(Duration)), "relations")>>>>,
                [default |-> SpanConfig({Current(ServiceName), Current(OperationName)},
                                        Metrics0),
                 relations |-> SpanConfig({Current(ServiceName), Parent(ServiceName)},
                                  [duration |-> Metrics0.duration])])

\* Two outer rule lists: in the first, child spans match both rules; the
\* second matches the spans with an error tag and names "default" again.
Cfg3 ==
    TraceConfig(<<<<Rule(SelHas(Parent(Duration)), "relations"),
                    Rule(SelAll(<<>>), "default")>>,
                  <<Rule(SelIsTrue(Current(SpanTag("error"))), "default")>>>>,
                [default |-> SpanConfig({Current(ServiceName)}, Metrics0),
                 relations |-> SpanConfig({Current(ServiceName), Parent(ServiceName)},
                                  [duration |-> Metrics0.duration])])

TraceConfigs == {Cfg0, Cfg1, Cfg2, Cfg3}

\* A single-span trace and a trace of a root with one child, rooted at t.
Trace1(t) ==
    <<Span("r1", <<>>, "get", "a", t, 4,
           <<Tag("bytes", TagInt64(3)), Tag("error", TagBool(TRUE)),
             Tag("busy", TagInt64(5)), Tag("thread", TagString("t1"))>>, <<>>)>>

Trace2(t) ==
    <<Span("r2", <<>>, "put", "b", t, 6,
           <<Tag("busy", TagInt64(4)), Tag("thread", TagString("t1"))>>, <<>>),
      Span("c2", <<"r2">>, "get", "a", t + 1, 2,
           <<Tag("bytes", TagInt64(1)), Tag("busy", TagInt64(1)),
             Tag("thread", TagString("t1"))>>, <<>>)>>

Traces(t) == {Trace1(t), Trace2(t)}

\* Groups that update(config) removes from p because their key set changed.
Dropped(p, config) ==
    {<<c, k>> \in (DOMAIN p.groups \cap DOMAIN config.configs)
                      \X UNION {DOMAIN p.groups[c].groups : c \in DOMAIN p.groups} :
        /\ p.groups[c].config.key # config.configs[c].key
        /\ k \in DOMAIN p.groups[c].groups}

\* The log of an operation: its arguments, the processor before it, the
\* number of operations so far and the number of groups that updates dropped.
PLog(op, t, config, trace) ==
    [op |-> op, t |-> t, pre |-> proc, config |-> config, trace |-> trace,
     n |-> pop.n + 1,
     dropped |-> IF op = "update"
                 THEN pop.dropped + Cardinality(Dropped(proc, config))
                 ELSE pop.dropped]

PInit ==
    /\ \E c \in TraceConfigs :
          /\ cfg = c
          /\ proc = TraceProcessor_new(c)
    /\ pop = [op |-> "new", t |-> 0, pre |-> NoProc, config |-> NoCfg,
              trace |-> <<>>, n |-> 0, dropped |-> 0]
    /\ win = NoWindow /\ wop = NoWop
    /\ asp = NoAsp /\ ahist = <<>> /\ aop = NoAop
    /\ sd = NoSd /\ orch = NoOrch
    /\ selq = NoSel /\ wf = NoWf /\ src = NoSrc
    /\ spx = NoSpx /\ hgp = NoHgp /\ smp = NoSmp
    /\ boot = NoBoot /\ fl = NoFl /\ pg = NoPg

PInsert ==
    /\ pop.n < MaxProcOps
    /\ \E t \in PTimes : \E trace \in Traces(t) :
          /\ proc' = TraceProcessor_insert(proc, t, trace)
          /\ pop' = PLog("insert", t, NoCfg, trace)
    /\ UNCHANGED <<cfg, win, wop, asp, ahist, aop, sd, orch, selq, wf, src, spx, hgp, smp, boot, fl, pg>>

PUpdate ==
    /\ pop.n < MaxProcOps
    /\ \E t \in PTimes, c \in TraceConfigs :
          /\ proc' = TraceProcessor_update(proc, t, c)
          /\ cfg' = c
          /\ pop' = PLog("update", t, c, <<>>)
    /\ UNCHANGED <<win, wop, asp, ahist, aop, sd, orch, selq, wf, src, spx, hgp, smp, boot, fl, pg>>

PCleanup ==
    /\ pop.n < MaxProcOps
    /\ \E t \in PTimes :
          /\ proc' = TraceProcessor_cleanup(proc, t)
          /\ pop' = PLog("cleanup", t, NoCfg, <<>>)
    /\ UNCHANGED <<cfg, win, wop, asp, ahist, aop, sd, orch, selq, wf, src, spx, hgp, smp, boot, fl, pg>>

\* The state is saved and the processor is rebuilt from it under the
\* configuration in force.
PReload ==
    /\ pop.n < MaxProcOps
    /\ \E t \in PTimes :
          /\ proc' = TraceProcessor_load(t, TraceProcessor_save(proc), cfg)
          /\ pop' = PLog("load", t, cfg, <<>>)
    /\ UNCHANGED <<cfg, win, wop, asp, ahist, aop, sd, orch, selq, wf, src, spx, hgp, smp, boot, fl, pg>>

PNext == PInsert \/ PUpdate \/ PCleanup \/ PReload

SpecProc == PInit /\ [][PNext]_vars

(***************************************************************************)
(* The processor tree under configurations that differ in the names of     *)
(* their span configurations and in the names of their metrics.            *)
(***************************************************************************)
MaxShapeOps == 3        \* operations applied to the processor tree

ShapeCfg0 ==
    TraceConfig(Cfg2.rules,
                [default |-> SpanConfig({Current(ServiceName)},
                                [calls |-> Metrics0.calls, duration |-> Metrics0.duration])])

\* "default" loses a metric and gains one under the same key; "relations" is new.
ShapeCfg1 ==
    TraceConfig(Cfg2.rules,
                [default |-> SpanConfig({Current(ServiceName)},
                                [calls |-> Metrics0.calls, bytes |-> Metrics0.bytes]),
                 relations |-> Cfg2.configs.relations])

\* "default" is gone, "relations" has another key and another metric.
ShapeCfg2 ==
    TraceConfig(Cfg2.rules,
                [relations |-> SpanConfig({Current(ServiceName)},
                                  [self |-> Metrics0.self])])

ShapeConfigs == {ShapeCfg0, ShapeCfg1, ShapeCfg2}

ShInit ==
    /\ \E c \in ShapeConfigs :
          /\ cfg = c
          /\ proc = TraceProcessor_new(c)
    /\ pop = [op |-> "new", t |-> 0, pre |-> NoProc, config |-> NoCfg,
              trace |-> <<>>, n |-> 0, dropped |-> 0]
    /\ win = NoWindow /\ wop = NoWop
    /\ asp = NoAsp /\ ahist = <<>> /\ aop = NoAop
    /\ sd = NoSd /\ orch = NoOrch
    /\ selq = NoSel /\ wf = NoWf /\ src = NoSrc
    /\ spx = NoSpx /\ hgp = NoHgp /\ smp = NoSmp
    /\ boot = NoBoot /\ fl = NoFl /\ pg = NoPg

ShInsert ==
    /\ pop.n < MaxShapeOps
    /\ \E t \in PTimes : \E trace \in Traces(t) :
          /\ proc' = TraceProcessor_insert(proc, t, trace)
          /\ pop' = PLog("insert", t, NoCfg, trace)
    /\ UNCHANGED <<cfg, win, wop, asp, ahist, aop, sd, orch, selq, wf, src, spx, hgp, smp, boot, fl, pg>>

ShUpdate ==
    /\ pop.n < MaxShapeOps
    /\ \E t \in PTimes, c \in ShapeConfigs :
          /\ proc' = TraceProcessor_update(proc, t, c)
          /\ cfg' = c
          /\ pop' = PLog("update", t, c, <<>>)
    /\ UNCHANGED <<win, wop, asp, ahist, aop, sd, orch, selq, wf, src, spx, hgp, smp, boot, fl, pg>>

ShCleanup ==
    /\ pop.n < MaxShapeOps
    /\ \E t \in PTimes :
          /\ proc' = TraceProcessor_cleanup(proc, t)
          /\ pop' = PLog("cleanup", t, NoCfg, <<>>)
    /\ UNCHANGED <<cfg, win, wop, asp, ahist, aop, sd, orch, selq, wf, src, spx, hgp, smp, boot, fl, pg>>

\* The state is saved and the processor is rebuilt from it under the
\* configuration it was saved with.
ShLoad ==
    /\ pop.n < MaxShapeOps
    /\ \E t \in PTimes :
          /\ proc' = TraceProcessor_load(t, TraceProcessor_save(proc), cfg)
          /\ pop' = PLog("load", t, cfg, <<>>)
    /\ UNCHANGED <<cfg, win, wop, asp, ahist, aop, sd, orch, selq, wf, src, spx, hgp, smp, boot, fl, pg>>

ShNext == ShInsert \/ ShUpdate \/ ShCleanup \/ ShLoad

SpecShape == ShInit /\ [][ShNext]_vars

(***************************************************************************)
(* The SelfDuration source under test: a span and a list of children       *)
(* sorted by start time are drawn, then the source is fed the span.        *)
(***************************************************************************)
MaxSpanStart == 2       \* span start times: 0..MaxSpanStart
MaxSpanDuration == 3    \* span durations: 0..MaxSpanDuration
MaxChildStart == 4      \* child start times: 0..MaxChildStart
MaxChildDuration == 4   \* child durations: 0..MaxChildDuration
MaxChildren == 2        \* children per span

\* A span that carries nothing but its interval.
Interval(id, refs, start, dur) == Span(id, refs, "op", "svc", start, dur, <<>>, <<>>)

ChildSpans ==
    {Interval("c", <<"p">>, s, d) : s \in 0..MaxChildStart, d \in 0..MaxChildDuration}

\* The lists of at most MaxChildren children, ordered by start time.
ChildLists ==
    {cs \in UNION {[1..n -> ChildSpans] : n \in 0..MaxChildren} :
        \A k \in 1..(Len(cs) - 1) : cs[k].start_time <= cs[k + 1].start_time}

SdInit ==
    /\ \E s \in 0..MaxSpanStart, d \in 0..MaxSpanDuration, cs \in ChildLists :
          sd = [op |-> "input", span |-> Interval("p", <<>>, s, d), children |-> cs,
                values |-> <<>>]
    /\ win = NoWindow /\ wop = NoWop
    /\ asp = NoAsp /\ ahist = <<>> /\ aop = NoAop
    /\ proc = NoProc /\ cfg = NoCfg /\ pop = NoPop
    /\ orch = NoOrch
    /\ selq = NoSel /\ wf = NoWf /\ src = NoSrc
    /\ spx = NoSpx /\ hgp = NoHgp /\ smp = NoSmp
    /\ boot = NoBoot /\ fl = NoFl /\ pg = NoPg

SdInsert ==
    /\ sd.op = "input"
    /\ sd' = [sd EXCEPT !.op = "insert",
                        !.values = SourceProcessor_insert(
                                       SourceProcessor_new(0, SourceSelfDuration), 0,
                                       sd.span, None, sd.children).values]
    /\ UNCHANGED <<win, wop, asp, ahist, aop, proc, cfg, pop, orch, selq, wf, src, spx, hgp, smp, boot, fl, pg>>

SdNext == SdInsert

SpecSelfDuration == SdInit /\ [][SdNext]_vars

(***************************************************************************)
(* Welford::merge under test: two value sequences are drawn, then the      *)
(* accumulator of the first is merged with the accumulator of the second.  *)
(***************************************************************************)
MaxWelfordLen == 3          \* values per sequence: 0..MaxWelfordLen

ValueSeqs == UNION {[1..n -> Values] : n \in 0..MaxWelfordLen}

\* The accumulator after inserting the values of xs into w in order.
RECURSIVE Welford_insert_all(_, _)
Welford_insert_all(w, xs) ==
    IF xs = <<>> THEN w
    ELSE Welford_insert_all(Welford_insert(w, Rat(Head(xs))), Tail(xs))

Welford_of(xs) == Welford_insert_all(Welford_default, xs)

WfInit ==
    /\ \E xs \in ValueSeqs, ys \in ValueSeqs :
          wf = [op |-> "input", xs |-> xs, ys |-> ys, merged |-> Welford_default]
    /\ win = NoWindow /\ wop = NoWop
    /\ asp = NoAsp /\ ahist = <<>> /\ aop = NoAop
    /\ proc = NoProc /\ cfg = NoCfg /\ pop = NoPop
    /\ sd = NoSd /\ orch = NoOrch
    /\ selq = NoSel /\ src = NoSrc
    /\ spx = NoSpx /\ hgp = NoHgp /\ smp = NoSmp
    /\ boot = NoBoot /\ fl = NoFl /\ pg = NoPg

WfMerge ==
    /\ wf.op = "input"
    /\ wf' = [wf EXCEPT !.op = "merge",
                        !.merged = Welford_merge(Welford_of(wf.xs), Welford_of(wf.ys))]
    /\ UNCHANGED <<win, wop, asp, ahist, aop, proc, cfg, pop, sd, orch, selq, src, spx, hgp, smp, boot, fl, pg>>

WfNext == WfMerge

SpecWelford == WfInit /\ [][WfNext]_vars

(***************************************************************************)
(* SourceProcessor::insert under test: a TagExcept source is given a span  *)
(* and its children, a Count source is given spans at arbitrary times.     *)
(***************************************************************************)
MaxSourceInserts == 3       \* spans inserted into the Count source
MaxSourceChildren == 2      \* children of the span given to TagExcept

\* The span's and the children's tags: busy absent, an integer or a string;
\* thread absent or one of two values.
BusyTags == {<<>>, <<Tag("busy", TagInt64(1))>>, <<Tag("busy", TagInt64(5))>>,
             <<Tag("busy", TagString("x"))>>}
ThreadTags == {<<>>, <<Tag("thread", TagString("a"))>>, <<Tag("thread", TagString("b"))>>}

SourceSpans ==
    {Span(1, <<>>, "op", "svc", 0, 1, b \o th, <<>>) : b \in BusyTags, th \in ThreadTags}

SourceChildLists == UNION {[1..n -> SourceSpans] : n \in 0..MaxSourceChildren}

SourceConfigs ==
    {SourceTagExcept("busy", "thread")} \cup {SourceCount(c) : c \in WindowConfigs}

NoSpan == Span(0, <<>>, "", "", 0, 0, <<>>, <<>>)

SrcInit ==
    /\ \E c \in SourceConfigs :
          src = [op |-> "new", p |-> SourceProcessor_new(0, c),
                 pre |-> SourceProcessor_new(0, c), t |-> 0,
                 span |-> NoSpan, children |-> <<>>, values |-> <<>>]
    /\ win = NoWindow /\ wop = NoWop
    /\ asp = NoAsp /\ ahist = <<>> /\ aop = NoAop
    /\ proc = NoProc /\ cfg = NoCfg /\ pop = NoPop
    /\ sd = NoSd /\ orch = NoOrch
    /\ selq = NoSel /\ wf = NoWf
    /\ spx = NoSpx /\ hgp = NoHgp /\ smp = NoSmp
    /\ boot = NoBoot /\ fl = NoFl /\ pg = NoPg

\* The TagExcept source keeps no state: one insert is drawn.
SrcTagExcept ==
    /\ src.p.kind = "TagExcept"
    /\ src.op = "new"
    /\ \E span \in SourceSpans, children \in SourceChildLists :
          LET r == SourceProcessor_insert(src.p, 0, span, None, children)
          IN  src' = [op |-> "insert", p |-> r.source, pre |-> src.p, t |-> 0,
                      span |-> span, children |-> children, values |-> r.values]
    /\ UNCHANGED <<win, wop, asp, ahist, aop, proc, cfg, pop, sd, orch, selq, wf, spx, hgp, smp, boot, fl, pg>>

SrcCount ==
    /\ src.p.kind = "Count"
    /\ src.p.count < MaxSourceInserts
    /\ \E t \in Times :
          LET r == SourceProcessor_insert(src.p, t, NoSpan, None, <<>>)
          IN  src' = [op |-> "insert", p |-> r.source, pre |-> src.p, t |-> t,
                      span |-> NoSpan, children |-> <<>>, values |-> r.values]
    /\ UNCHANGED <<win, wop, asp, ahist, aop, proc, cfg, pop, sd, orch, selq, wf, spx, hgp, smp, boot, fl, pg>>

SrcNext == SrcTagExcept \/ SrcCount

SpecSource == SrcInit /\ [][SrcNext]_vars

(***************************************************************************)
(* SpanProcessor::insert under test: spans with and without the key tag,   *)
(* with and without a parent, are inserted into one configuration.         *)
(***************************************************************************)
MaxSpanInserts == 3         \* spans inserted into the span processor

SpxMetrics ==
    [duration |-> MetricConfig(SourceDuration,
                     StatsConfig(None, Some([algorithm |-> "CountSum"]), None, None))]

SpxConfigs ==
    {SpanConfig(key, SpxMetrics) :
        key \in {{Current(ServiceName)},
                 {Current(ServiceName), Current(SpanTag("k"))},
                 {Current(SpanTag("k")), Parent(ServiceName)}}}

SpxSpans ==
    {Span(1, <<>>, "op", svc, 0, 1, tags, <<>>) :
        svc \in {"a", "b"},
        tags \in {<<>>, <<Tag("k", TagString("x"))>>, <<Tag("k", TagInt64(1))>>}}

SpxParents ==
    {None} \cup {Some(Span(0, <<>>, "op", svc, 0, 2, <<>>, <<>>)) : svc \in {"a", "b"}}

SpxInit ==
    /\ \E c \in SpxConfigs :
          spx = [op |-> "new", p |-> SpanProcessor_new(c), inserted |-> <<>>]
    /\ win = NoWindow /\ wop = NoWop
    /\ asp = NoAsp /\ ahist = <<>> /\ aop = NoAop
    /\ proc = NoProc /\ cfg = NoCfg /\ pop = NoPop
    /\ sd = NoSd /\ orch = NoOrch
    /\ selq = NoSel /\ wf = NoWf /\ src = NoSrc
    /\ hgp = NoHgp /\ smp = NoSmp
    /\ boot = NoBoot /\ fl = NoFl /\ pg = NoPg

SpxInsert ==
    /\ Len(spx.inserted) < MaxSpanInserts
    /\ \E span \in SpxSpans, parent \in SpxParents :
          spx' = [op |-> "insert",
                  p |-> SpanProcessor_insert(spx.p, 0, span, parent, <<>>),
                  inserted |-> Append(spx.inserted, [span |-> span, parent |-> parent])]
    /\ UNCHANGED <<win, wop, asp, ahist, aop, proc, cfg, pop, sd, orch, selq, wf, src,
                   hgp, smp, boot, fl, pg>>

SpxNext == SpxInsert

SpecSpan == SpxInit /\ [][SpxNext]_vars

(***************************************************************************)
(* The Summary processor under test: created at time 0, fed observations   *)
(* through StatsProcessor::insert at times that do not decrease, sampled.  *)
(***************************************************************************)
MaxSummaryInserts == 2      \* observations inserted into the summary

SmConfigs == {[window |-> c, percentiles |-> <<50>>] : c \in WindowConfigs}

SmStats(config) == StatsConfig(None, None, Some(config), None)

SmInit ==
    /\ \E c \in SmConfigs :
          smp = [op |-> "new", stats |-> StatsProcessor_new(0, SmStats(c)), t |-> 0,
                 hist |-> <<>>, digest |-> TDigest_default]
    /\ win = NoWindow /\ wop = NoWop
    /\ asp = NoAsp /\ ahist = <<>> /\ aop = NoAop
    /\ proc = NoProc /\ cfg = NoCfg /\ pop = NoPop
    /\ sd = NoSd /\ orch = NoOrch
    /\ selq = NoSel /\ wf = NoWf /\ src = NoSrc
    /\ spx = NoSpx /\ hgp = NoHgp
    /\ boot = NoBoot /\ fl = NoFl /\ pg = NoPg

SmInsert ==
    /\ Len(smp.hist) < MaxSummaryInserts
    /\ \E t \in Times, v \in Values :
          /\ smp.t <= t
          /\ smp' = [smp EXCEPT !.op = "insert", !.t = t,
                                !.stats = StatsProcessor_insert(@, t, Rat(v)),
                                !.hist = Append(@, [t |-> t, value |-> v])]
    /\ UNCHANGED <<win, wop, asp, ahist, aop, proc, cfg, pop, sd, orch, selq, wf, src,
                   spx, hgp, boot, fl, pg>>

SmSample ==
    /\ smp.op # "sample"
    /\ \E t \in Times :
          /\ smp.t <= t
          /\ smp' = [smp EXCEPT !.op = "sample", !.t = t,
                                !.digest = SummaryProcessor_sample_digest(
                                               Unwrap(smp.stats.summary))]
    /\ UNCHANGED <<win, wop, asp, ahist, aop, proc, cfg, pop, sd, orch, selq, wf, src,
                   spx, hgp, boot, fl, pg>>

SmNext == SmInsert \/ SmSample

SpecSummary == SmInit /\ [][SmNext]_vars

(***************************************************************************)
(* The Histogram processor under test: created under ascending bounds,     *)
(* fed observations, updated, saved and loaded under any of the bounds.    *)
(***************************************************************************)
MaxHistogramOps == 4        \* operations applied to the histogram

HgValues == {1, 3, 6}
HgConfigs == {[bounds |-> b] : b \in {<<2>>, <<2, 5>>, <<2, 4, 5>>}}

\* The log: the values inserted since new, whether anything but insert ran
\* since then, the state saved last and the bounds it was saved under.
HgInit ==
    /\ \E c \in HgConfigs :
          hgp = [op |-> "new", p |-> HistogramProcessor_new(c), n |-> 0,
                 inserted |-> <<>>, only_inserts |-> TRUE,
                 saved |-> None, saved_bounds |-> <<>>, config |-> c]
    /\ win = NoWindow /\ wop = NoWop
    /\ asp = NoAsp /\ ahist = <<>> /\ aop = NoAop
    /\ proc = NoProc /\ cfg = NoCfg /\ pop = NoPop
    /\ sd = NoSd /\ orch = NoOrch
    /\ selq = NoSel /\ wf = NoWf /\ src = NoSrc
    /\ spx = NoSpx /\ smp = NoSmp
    /\ boot = NoBoot /\ fl = NoFl /\ pg = NoPg

HgInsert ==
    /\ hgp.n < MaxHistogramOps
    /\ \E v \in HgValues :
          hgp' = [hgp EXCEPT !.op = "insert", !.n = @ + 1,
                             !.p = HistogramProcessor_insert(@, Rat(v)),
                             !.inserted = Append(@, v)]
    /\ UNCHANGED <<win, wop, asp, ahist, aop, proc, cfg, pop, sd, orch, selq, wf, src,
                   spx, smp, boot, fl, pg>>

HgUpdate ==
    /\ hgp.n < MaxHistogramOps
    /\ \E c \in HgConfigs :
          hgp' = [hgp EXCEPT !.op = "update", !.n = @ + 1,
                             !.p = HistogramProcessor_update(@, c),
                             !.only_inserts = FALSE, !.config = c]
    /\ UNCHANGED <<win, wop, asp, ahist, aop, proc, cfg, pop, sd, orch, selq, wf, src,
                   spx, smp, boot, fl, pg>>

HgSave ==
    /\ hgp.n < MaxHistogramOps
    /\ hgp' = [hgp EXCEPT !.op = "save", !.n = @ + 1,
                          !.saved = Some(HistogramProcessor_save(hgp.p)),
                          !.saved_bounds = hgp.p.bounds]
    /\ UNCHANGED <<win, wop, asp, ahist, aop, proc, cfg, pop, sd, orch, selq, wf, src,
                   spx, smp, boot, fl, pg>>

HgLoad ==
    /\ hgp.n < MaxHistogramOps
    /\ IsSome(hgp.saved)
    /\ \E c \in HgConfigs :
          hgp' = [hgp EXCEPT !.op = "load", !.n = @ + 1,
                             !.p = HistogramProcessor_load(Unwrap(hgp.saved), c),
                             !.only_inserts = FALSE, !.config = c]
    /\ UNCHANGED <<win, wop, asp, ahist, aop, proc, cfg, pop, sd, orch, selq, wf, src,
                   spx, smp, boot, fl, pg>>

HgNext == HgInsert \/ HgUpdate \/ HgSave \/ HgLoad

SpecHistogram == HgInit /\ [][HgNext]_vars

(***************************************************************************)
(* SpanSelector::matches under test: a selector over the span tag "k" and  *)
(* a span are drawn, then the selector is applied to the span.             *)
(***************************************************************************)
MaxSelectorMembers == 2     \* members of an All or Any: 0..MaxSelectorMembers

SelKey == Current(SpanTag("k"))

\* The values of the tag: strings, integers and a boolean; or no tag.
SelTagValues ==
    {TagString("200"), TagString("404"), TagInt64(200), TagInt64(404), TagBool(TRUE)}

SelSpans ==
    {Span("s", <<>>, "get", "svc", 0, 1, <<>>, <<>>)}
        \cup {Span("s", <<>>, "get", "svc", 0, 1, <<Tag("k", v)>>, <<>>) : v \in SelTagValues}

\* ^2..$ over the strings of the model.
Re2xx == Regex("^2..$", {"200"})

\* 200..=299
Range2xx == [lower |-> Some([op |-> "Ge", n |-> 200]), upper |-> Some([op |-> "Le", n |-> 299])]

LeafSelectors ==
    {SelHas(SelKey), SelIn(SelKey, {"200"}), SelNotIn(SelKey, {"200"}),
     SelMatch(SelKey, Re2xx), SelNoMatch(SelKey, Re2xx),
     SelEq(SelKey, 200), SelNe(SelKey, 200),
     SelInside(SelKey, Range2xx), SelOutside(SelKey, Range2xx),
     SelIsTrue(SelKey), SelIsFalse(SelKey)}

MemberLists == UNION {[1..n -> LeafSelectors] : n \in 0..MaxSelectorMembers}

Selectors ==
    LeafSelectors \cup {SelNot(l) : l \in LeafSelectors}
        \cup {SelAll(m) : m \in MemberLists} \cup {SelAny(m) : m \in MemberLists}

SelInit ==
    /\ \E s \in Selectors, span \in SelSpans :
          selq = [op |-> "input", sel |-> s, span |-> span, result |-> FALSE]
    /\ win = NoWindow /\ wop = NoWop
    /\ asp = NoAsp /\ ahist = <<>> /\ aop = NoAop
    /\ proc = NoProc /\ cfg = NoCfg /\ pop = NoPop
    /\ sd = NoSd /\ orch = NoOrch
    /\ wf = NoWf /\ src = NoSrc
    /\ spx = NoSpx /\ hgp = NoHgp /\ smp = NoSmp
    /\ boot = NoBoot /\ fl = NoFl /\ pg = NoPg

SelMatches ==
    /\ selq.op = "input"
    /\ selq' = [selq EXCEPT !.op = "matches",
                            !.result = SpanSelector_matches(selq.sel, selq.span, None)]
    /\ UNCHANGED <<win, wop, asp, ahist, aop, proc, cfg, pop, sd, orch, wf, src, spx, hgp, smp, boot, fl, pg>>

SelNext == SelMatches

SpecSelector == SelInit /\ [][SelNext]_vars

(***************************************************************************)
(* engine/src/processor/proc.rs: the orchestrator task of Processor::new,  *)
(* process_traces and for_traces, with the trace store, the remote-write   *)
(* endpoint, the state file and the callers of update_config and shutdown  *)
(* as its environment.  Time is in whole seconds.                          *)
(***************************************************************************)
MaxNow == 5                 \* the clock runs over 0..MaxNow
MaxTicks == 2               \* ticks of the query interval, nobody posting or stopping
MaxEnvTicks == 1            \* ticks with configurations posted and shutdown called
MaxPosts == 2               \* configurations posted through update_config
MaxMetricsPerRequest == 2   \* args.metrics_per_request: 1..MaxMetricsPerRequest
BatchSize == 2              \* BATCH_SIZE: root spans per page
ChunkSize == 1              \* CHUNK_SIZE: traces per span fetch
HourSpan == 2               \* the TimeDelta::hours(1) of min_timestamp

Config(trace, query_interval, max_history, delay) ==
    [trace |-> trace, query_interval |-> query_interval,
     max_history |-> max_history, delay |-> delay]

\* One configuration keyed by service name with a Count metric, with and
\* without its count/sum statistics.
OrchTrace0 ==
    TraceConfig(DefaultRules,
        [default |-> SpanConfig({Current(ServiceName)},
            [calls |-> MetricConfig(SourceCount(SmallWindow),
                           StatsConfig(None, Some(CountSum), None, None))])])

OrchTrace1 ==
    TraceConfig(DefaultRules,
        [default |-> SpanConfig({Current(ServiceName)},
            [calls |-> MetricConfig(SourceCount(SmallWindow),
                           StatsConfig(None, None, None, None))])])

\* The configuration the task starts with, and one with another trace
\* configuration, query interval and delay.
Config_default == Config(OrchTrace0, Seconds(1), Seconds(2), Seconds(0))
Config_posted == Config(OrchTrace1, Seconds(2), Seconds(2), Seconds(1))

OrchConfigs == {Config_default, Config_posted}

\* The root spans in the trace store: single-span traces.
Root(t, svc) == Span(svc, <<>>, "get", svc, t, 1, <<>>, <<>>)

Stores == {{Root(0, "a"), Root(2, "b")}, {Root(1, "b")}}

\* The hits of a page: the first BatchSize roots of the store with
\* from <= startTime < to, after the sort value of the previous page, by
\* ascending startTime.
RECURSIVE SortRoots(_)
SortRoots(roots) ==
    IF roots = {} THEN <<>>
    ELSE LET first == CHOOSE r \in roots : \A q \in roots : r.start_time <= q.start_time
         IN  <<first>> \o SortRoots(roots \ {first})

Store_page(store, from, to, last) ==
    LET all == SortRoots({r \in store :
                   /\ from <= r.start_time /\ r.start_time < to
                   /\ IsSome(last) => r.start_time > Unwrap(last)})
    IN  SubSeq(all, 1, Min(Len(all), BatchSize))

\* The sampling state of process_traces: next_sample and the metrics buffer,
\* with the requests built so far by the running step, the samples handed
\* to the buffer by it and, per series, the timestamp handed last.
RECURSIVE Sampler_add(_, _, _)
Sampler_add(ss, series, t) ==
    IF series = {} THEN ss
    ELSE LET a == CHOOSE a \in series : TRUE
             labels == Metrics_labels(a[1], a[2])
         IN  Sampler_add(
                 [ss EXCEPT
                    !.metrics = Metrics_add_metric(@, a[1], a[2], t),
                    !.handed = Append(@, [series |-> labels, t |-> t,
                                          prev |-> IF labels \in DOMAIN ss.last_ts
                                                   THEN Some(ss.last_ts[labels])
                                                   ELSE None]),
                    !.last_ts = [k \in DOMAIN @ \cup {labels} |->
                                    IF k = labels THEN t ELSE @[k]]],
                 series \ {a}, t)

\* write_metrics(metrics.split_off(max)): the request is built from the
\* series split off; a failed write is logged and changes nothing.
Sampler_write(ss, max, point) ==
    LET r == Metrics_split_off(ss.metrics, max)
    IN  [ss EXCEPT !.metrics = r.rest,
                   !.requests = Append(@, [point |-> point,
                                           series |-> Cardinality(DOMAIN r.taken),
                                           samples |-> Metrics_len(r.taken)])]

\* while metrics.len() > metrics_per_request { write_metrics(...) }
RECURSIVE Sampler_flush(_, _, _)
Sampler_flush(ss, max, point) ==
    IF Metrics_len(ss.metrics) > max
    THEN Sampler_flush(Sampler_write(ss, max, point), max, point)
    ELSE ss

\* while !metrics.is_empty() { write_metrics(...) }
RECURSIVE Sampler_flush_all(_, _, _)
Sampler_flush_all(ss, max, point) ==
    IF ~Metrics_is_empty(ss.metrics)
    THEN Sampler_flush_all(Sampler_write(ss, max, point), max, point)
    ELSE ss

\* while next_sample < limit { sample; next_sample += interval; flush }.
\* The handler samples only at or after min_timestamp, the catch-up loop
\* samples always.
RECURSIVE Sampler_sample_until(_, _, _, _, _, _, _)
Sampler_sample_until(ss, p, limit, interval, min_timestamp, max, point) ==
    IF ss.next_sample < limit
    THEN LET s1 == IF point = "catch-up" \/ ss.next_sample >= min_timestamp
                   THEN Sampler_add(ss, TraceProcessor_sample(p), ss.next_sample)
                   ELSE ss
             s2 == [s1 EXCEPT !.next_sample = @ + interval]
         IN  Sampler_sample_until(Sampler_flush(s2, max, point), p, limit, interval,
                                  min_timestamp, max, point)
    ELSE ss

\* A tick branch that advances from whatever process_traces returns.
Tick_from_always(res, from, to) == to

\* process_traces returns: from advances to `to` unless the tick failed.
Tick_from(res, from, to) == IF res = "ok" THEN to ELSE from

Tick_end(o, res) ==
    [o EXCEPT !.pc = "write", !.tick.res = res,
              !.from = Tick_from(res, o.from, o.to)]

\* An inner block whose errors leave for_traces at once.
ForTraces_inner_end_return(o, res) ==
    IF res = "ok" THEN [o EXCEPT !.pc = "delete", !.res = res]
    ELSE Tick_end([o EXCEPT !.res = res], "err")

\* The inner block of for_traces ends, with or without an error; the
\* delete request for the point in time comes next.
ForTraces_inner_end(o, res) == [o EXCEPT !.pc = "delete", !.res = res]

\* A termination that cuts the running branch short.
Term_ready_at_once(o) == o.pc \notin {"done", "panicked"} /\ o.term = "sent"

\* A configuration that is applied as soon as it is posted.
Config_ready_at_once(o) == o.pc \notin {"done", "panicked"} /\ o.changed

\* The branches of the select! loop that can be taken.
Term_ready(o) == o.pc = "select" /\ o.term = "sent"

Config_ready(o) == o.pc = "select" /\ o.changed

Tick_ready(o) == o.pc = "select" /\ o.ticks < o.max_ticks /\ Max(o.now, o.due) <= MaxNow

NoTick == [from |-> 0, to |-> 0, res |-> "none"]
NoWrote == [kind |-> "none", last |-> 0]

\* The task as spawned by Processor::new without a state file, the clock at
\* max_history.
Orch_init(max_ticks) ==
    /\ \E mpr \in 1..MaxMetricsPerRequest, store \in Stores :
          LET now == to_time_delta(Config_default.max_history)
          IN
          orch = [pc |-> "select",
                  max_ticks |-> max_ticks,
                  now |-> now,
                  due |-> now,
                  mpr |-> mpr,
                  store |-> store,
                  config |-> Config_default,
                  chan |-> Config_default,
                  changed |-> FALSE,
                  pending |-> <<>>,
                  pending_in_tick |-> FALSE,
                  posts |-> 0,
                  applied |-> [pending |-> <<>>, in_tick |-> FALSE],
                  term |-> "none",
                  term_in_tick |-> FALSE,
                  from |-> now - to_time_delta(Config_default.max_history),
                  to |-> 0,
                  processor |-> TraceProcessor_new(Config_default.trace),
                  ss |-> [next_sample |-> 0, metrics |-> Metrics_new, handed |-> <<>>,
                          last_ts |-> << >>, requests |-> <<>>],
                  min_timestamp |-> 0,
                  pit |-> "none",
                  last |-> None,
                  hits |-> <<>>,
                  chunk |-> <<>>,
                  res |-> "none",
                  file |-> None,
                  wrote |-> NoWrote,
                  written |-> 0,
                  ticks |-> 0,
                  tick |-> NoTick,
                  prev |-> NoTick]
    /\ win = NoWindow /\ wop = NoWop
    /\ asp = NoAsp /\ ahist = <<>> /\ aop = NoAop
    /\ proc = NoProc /\ cfg = NoCfg /\ pop = NoPop
    /\ sd = NoSd
    /\ selq = NoSel /\ wf = NoWf /\ src = NoSrc
    /\ spx = NoSpx /\ hgp = NoHgp /\ smp = NoSmp
    /\ boot = NoBoot /\ fl = NoFl /\ pg = NoPg

\* interval.tick() fires: the tick branch up to the call of for_traces.
OTick ==
    /\ Tick_ready(orch)
    /\ \E now \in Max(orch.now, orch.due)..Min(MaxNow, Max(orch.now, orch.due) + 1) :
          LET to == now - to_time_delta(orch.config.delay)
          IN  orch' = [orch EXCEPT
                 !.pc = "pit",
                 !.now = now,
                 !.due = @ + to_time_delta(orch.config.query_interval),
                 !.to = to,
                 !.ticks = @ + 1,
                 !.prev = orch.tick,
                 !.tick = [from |-> orch.from, to |-> to, res |-> "none"],
                 !.ss = [@ EXCEPT !.next_sample = orch.from + to_time_delta(orch.config.query_interval),
                                  !.metrics = Metrics_new,
                                  !.handed = <<>>,
                                  !.requests = <<>>],
                 !.min_timestamp = now - HourSpan,
                 !.pit = "none",
                 !.last = None,
                 !.hits = <<>>,
                 !.chunk = <<>>,
                 !.res = "none"]
    /\ UNCHANGED <<win, wop, asp, ahist, aop, proc, cfg, pop, sd, selq, wf, src, spx, hgp, smp, boot, fl, pg>>

\* The point in time is created, or the request fails and for_traces
\* returns the error.
OCreatePit ==
    /\ orch.pc = "pit"
    /\ \E ok \in BOOLEAN :
          orch' = IF ok THEN [orch EXCEPT !.pc = "page", !.pit = "open"]
                  ELSE Tick_end(orch, "err")
    /\ UNCHANGED <<win, wop, asp, ahist, aop, proc, cfg, pop, sd, selq, wf, src, spx, hgp, smp, boot, fl, pg>>

\* One page of root spans: the request fails, the response has no pit id,
\* there are no more hits, or the hits are taken chunk by chunk.
OPage ==
    /\ orch.pc = "page"
    /\ \E outcome \in {"ok", "page_error", "missing_pit_id"} :
          LET hits == Store_page(orch.store, orch.from, orch.to, orch.last)
          IN  orch' = IF outcome # "ok" THEN ForTraces_inner_end(orch, outcome)
                      ELSE IF hits = <<>> THEN ForTraces_inner_end(orch, "ok")
                      ELSE [orch EXCEPT !.pc = "spans",
                                        !.last = Some(hits[Len(hits)].start_time),
                                        !.hits = hits]
    /\ UNCHANGED <<win, wop, asp, ahist, aop, proc, cfg, pop, sd, selq, wf, src, spx, hgp, smp, boot, fl, pg>>

\* The spans of the next chunk of roots are fetched.  The assertion on the
\* total of the response ends the task when it fails.
OSpans ==
    /\ orch.pc = "spans"
    /\ \E outcome \in {"ok", "spans_error", "missing_pit_id", "assert"} :
          LET n == Min(Len(orch.hits), ChunkSize)
          IN  orch' = CASE outcome = "ok" ->
                             [orch EXCEPT !.pc = "handle",
                                          !.chunk = SubSeq(orch.hits, 1, n),
                                          !.hits = SubSeq(orch.hits, n + 1, Len(orch.hits))]
                        [] outcome = "assert" -> [orch EXCEPT !.pc = "panicked"]
                        [] OTHER -> ForTraces_inner_end(orch, outcome)
    /\ UNCHANGED <<win, wop, asp, ahist, aop, proc, cfg, pop, sd, selq, wf, src, spx, hgp, smp, boot, fl, pg>>

\* Handler::handle for a root at time t: sample up to t, then insert.
Handler_handle(o, root) ==
    LET t == root.start_time
        ss == Sampler_sample_until([o.ss EXCEPT !.handed = <<>>], o.processor, t,
                                   to_time_delta(o.config.query_interval), o.min_timestamp,
                                   o.mpr, "handler")
    IN  [o EXCEPT !.ss = ss,
                  !.processor = TraceProcessor_insert(o.processor, t, <<root>>)]

\* The next root of the chunk: its spans were found and it is handled, its
\* start time is no timestamp and the handler fails, or no spans were found.
OHandle ==
    /\ orch.pc = "handle"
    /\ \E outcome \in {"ok", "handler_error", "no_spans"} :
          LET root == Head(orch.chunk)
              o1 == IF outcome = "ok" THEN Handler_handle(orch, root) ELSE orch
              rest == Tail(orch.chunk)
          IN  orch' = IF outcome = "handler_error" THEN ForTraces_inner_end(orch, outcome)
                      ELSE [o1 EXCEPT !.chunk = rest,
                                      !.pc = IF rest # <<>> THEN "handle"
                                             ELSE IF orch.hits # <<>> THEN "spans"
                                             ELSE "page"]
    /\ UNCHANGED <<win, wop, asp, ahist, aop, proc, cfg, pop, sd, selq, wf, src, spx, hgp, smp, boot, fl, pg>>

\* The point in time is deleted and for_traces returns: the error of the
\* delete request, or else the result of the inner block.
ODeletePit ==
    /\ orch.pc = "delete"
    /\ \E ok \in BOOLEAN :
          LET o1 == [orch EXCEPT !.pit = "deleted"]
          IN  orch' = IF ok /\ orch.res = "ok" THEN [o1 EXCEPT !.pc = "catchup"]
                      ELSE Tick_end(o1, "err")
    /\ UNCHANGED <<win, wop, asp, ahist, aop, proc, cfg, pop, sd, selq, wf, src, spx, hgp, smp, boot, fl, pg>>

\* while next_sample < to: the samples after the last trace.
OCatchUp ==
    /\ orch.pc = "catchup"
    /\ orch' = [orch EXCEPT
                  !.pc = "residual",
                  !.ss = Sampler_sample_until([@ EXCEPT !.handed = <<>>], orch.processor,
                             orch.to, to_time_delta(orch.config.query_interval), orch.min_timestamp,
                             orch.mpr, "catch-up")]
    /\ UNCHANGED <<win, wop, asp, ahist, aop, proc, cfg, pop, sd, selq, wf, src, spx, hgp, smp, boot, fl, pg>>

\* The rest of the buffer is written, old groups are cleaned up and
\* process_traces returns Ok.
OResidual ==
    /\ orch.pc = "residual"
    /\ orch' = Tick_end(
                 [orch EXCEPT
                    !.ss = Sampler_flush_all(@, orch.mpr, "residual"),
                    !.processor = TraceProcessor_cleanup(@, orch.to - Days(30))],
                 "ok")
    /\ UNCHANGED <<win, wop, asp, ahist, aop, proc, cfg, pop, sd, selq, wf, src, spx, hgp, smp, boot, fl, pg>>

\* write_state: the file is replaced, or the write fails with a warning.
Write_state(o, last, kind, ok) ==
    [o EXCEPT !.file = IF ok THEN Some([config |-> o.config, last |-> last,
                                        state |-> TraceProcessor_save(o.processor)])
                       ELSE @,
              !.wrote = [kind |-> kind, last |-> last]]

\* The end of the tick branch.
OWriteState ==
    /\ orch.pc = "write"
    /\ \E ok \in BOOLEAN :
          orch' = [Write_state(orch, orch.to, "tick", ok) EXCEPT
                      !.pc = "select", !.written = orch.ticks]
    /\ UNCHANGED <<win, wop, asp, ahist, aop, proc, cfg, pop, sd, selq, wf, src, spx, hgp, smp, boot, fl, pg>>

\* config_receiver.changed(): the latest configuration is applied unless it
\* equals the current one.
OConfigChanged ==
    /\ Config_ready(orch)
    /\ \E ok \in BOOLEAN :
          LET new == orch.chan
              o1 == [orch EXCEPT !.changed = FALSE, !.pending = <<>>,
                                 !.pending_in_tick = FALSE]
          IN  orch' = IF orch.config = new THEN o1
                      ELSE Write_state(
                               [o1 EXCEPT
                                  !.config = new,
                                  !.due = orch.now,
                                  !.applied = [pending |-> orch.pending,
                                               in_tick |-> orch.pending_in_tick],
                                  !.processor = TraceProcessor_update(@, orch.from, new.trace)],
                               orch.from, "config", ok)
    /\ UNCHANGED <<win, wop, asp, ahist, aop, proc, cfg, pop, sd, selq, wf, src, spx, hgp, smp, boot, fl, pg>>

\* term_receiver: the loop is left and the task returns.
OTerm ==
    /\ Term_ready(orch)
    /\ orch' = [orch EXCEPT !.pc = "done"]
    /\ UNCHANGED <<win, wop, asp, ahist, aop, proc, cfg, pop, sd, selq, wf, src, spx, hgp, smp, boot, fl, pg>>

\* update_config: the watch channel keeps the value sent last.
EPostConfig ==
    /\ orch.pc \notin {"done", "panicked"}
    /\ orch.posts < MaxPosts
    /\ \E c \in OrchConfigs :
          orch' = [orch EXCEPT !.chan = c, !.changed = TRUE,
                               !.posts = @ + 1,
                               !.pending = Append(@, c),
                               !.pending_in_tick = @ \/ orch.pc # "select"]
    /\ UNCHANGED <<win, wop, asp, ahist, aop, proc, cfg, pop, sd, selq, wf, src, spx, hgp, smp, boot, fl, pg>>

\* shutdown: the termination signal is sent once.
EShutdown ==
    /\ orch.pc \notin {"done", "panicked"}
    /\ orch.term = "none"
    /\ orch' = [orch EXCEPT !.term = "sent", !.term_in_tick = orch.pc # "select"]
    /\ UNCHANGED <<win, wop, asp, ahist, aop, proc, cfg, pop, sd, selq, wf, src, spx, hgp, smp, boot, fl, pg>>

\* The ticks of a task that is left alone.
TInit == Orch_init(MaxTicks)

TNext ==
    \/ OTick \/ OCreatePit \/ OPage \/ OSpans \/ OHandle \/ ODeletePit
    \/ OCatchUp \/ OResidual \/ OWriteState

SpecTicks == TInit /\ [][TNext]_vars

\* The task with configurations posted and shutdown called at any moment.
OInit == Orch_init(MaxEnvTicks)

ONext == TNext \/ OConfigChanged \/ OTerm \/ EPostConfig \/ EShutdown

SpecOrch == OInit /\ [][ONext]_vars

(***************************************************************************)
(* The start of Processor::new: a state file written by an earlier run,    *)
(* or none, and the configuration and processor the task is spawned with.  *)
(***************************************************************************)
MaxBootInserts == 2         \* traces inserted by the run that wrote the state file

\* The processors of an earlier run under trace configuration c.
RECURSIVE Boot_processors(_, _)
Boot_processors(c, n) ==
    IF n = 0 THEN {TraceProcessor_new(c)}
    ELSE LET before == Boot_processors(c, n - 1)
         IN  before \cup {TraceProcessor_insert(p, t, trace) :
                              p \in before, t \in PTimes, trace \in Traces(0)}

\* State { config, last, state } as write_state stores it.
State(config, last, state) == [config |-> config, last |-> last, state |-> state]

\* std::mem::take(&mut config.trace): the trace configuration taken out and
\* the configuration left with TraceConfig::default() in its place.
Config_take_trace(config) ==
    [taken |-> config.trace, config |-> [config EXCEPT !.trace = Cfg0]]

\* Processor::new up to the select! loop.
Processor_new(file, now) ==
    LET read == IF IsSome(file) THEN Unwrap(file).config
                ELSE Config(Cfg0, Seconds(1), Seconds(2), Seconds(0))
        took == Config_take_trace(read)
        config == took.config
        orig_trace_config == took.taken
        from == IF IsSome(file)
                THEN Max(now - to_time_delta(config.max_history), Unwrap(file).last)
                ELSE now - to_time_delta(config.max_history)
    IN  [chan |-> config,
         config |-> config,
         from |-> from,
         processor |->
            IF IsSome(file)
            THEN TraceProcessor_update(
                     TraceProcessor_load(from, Unwrap(file).state, orig_trace_config),
                     from, config.trace)
            ELSE TraceProcessor_new(config.trace)]

BInit ==
    /\ \E c \in TraceConfigs, last \in PTimes, now \in PTimes :
       \E p \in Boot_processors(c, MaxBootInserts) :
       \E file \in {None,
                    Some(State(Config(c, Seconds(1), Seconds(2), Seconds(0)), last,
                               TraceProcessor_save(p)))} :
          boot = [op |-> "exists", file |-> file, now |-> now + 2,
                  task |-> Processor_new(None, 0), got |-> None]
    /\ win = NoWindow /\ wop = NoWop
    /\ asp = NoAsp /\ ahist = <<>> /\ aop = NoAop
    /\ proc = NoProc /\ cfg = NoCfg /\ pop = NoPop
    /\ sd = NoSd /\ orch = NoOrch
    /\ selq = NoSel /\ wf = NoWf /\ src = NoSrc
    /\ spx = NoSpx /\ hgp = NoHgp /\ smp = NoSmp
    /\ fl = NoFl /\ pg = NoPg

BNew ==
    /\ boot.op = "exists"
    /\ boot' = [boot EXCEPT !.op = "new", !.task = Processor_new(boot.file, boot.now)]
    /\ UNCHANGED <<win, wop, asp, ahist, aop, proc, cfg, pop, sd, orch, selq, wf, src,
                   spx, hgp, smp, fl, pg>>

\* get_config: the value in the watch channel.
BGetConfig ==
    /\ boot.op = "new"
    /\ boot' = [boot EXCEPT !.op = "get_config", !.got = Some(boot.task.chan)]
    /\ UNCHANGED <<win, wop, asp, ahist, aop, proc, cfg, pop, sd, orch, selq, wf, src,
                   spx, hgp, smp, fl, pg>>

BNext == BNew \/ BGetConfig

SpecStartup == BInit /\ [][BNext]_vars

(***************************************************************************)
(* The catch-up loop and the residual flush of process_traces, one loop    *)
(* iteration per step, for every metrics_per_request the argument parser   *)
(* accepts (a usize, 0 included) and every buffer the handler can leave.   *)
(***************************************************************************)
MaxFlushPerRequest == 2     \* args.metrics_per_request: 0..MaxFlushPerRequest
MaxFlushTo == 3             \* the end of the tick: 0..MaxFlushTo

FlSeries == {"a", "b", "default"}

FlLabels(name) == <<<<"__name__", name>>>>

\* The buffers the handler can leave: its flush loop has ended, so they hold
\* at most metrics_per_request samples.
FlBuffers(mpr) ==
    {m \in UNION {[{FlLabels(n) : n \in names} -> {<<0>>}] : names \in SUBSET FlSeries} :
        Metrics_len(m) <= mpr}

\* processor.sample(next_sample, ...): one sample per series of the processor.
RECURSIVE Fl_sample(_, _, _)
Fl_sample(m, names, t) ==
    IF names = {} THEN m
    ELSE LET n == CHOOSE n \in names : TRUE
         IN  Fl_sample(Metrics_insert(m, FlLabels(n), t), names \ {n}, t)

\* write_metrics(metrics.split_off(max)): the series handed to the request
\* join those handed so far.
Fl_write(f) ==
    LET r == Metrics_split_off(f.metrics, f.mpr)
    IN  [f EXCEPT !.metrics = r.rest,
                  !.handed = @ \cup {<<k, r.taken[k]>> : k \in DOMAIN r.taken},
                  !.twice = @ \/ \E k \in DOMAIN r.taken : <<k, r.taken[k]>> \in f.handed]

FlInit ==
    /\ \E mpr \in 0..MaxFlushPerRequest, names \in SUBSET FlSeries, to \in 0..MaxFlushTo :
       \E m \in FlBuffers(mpr) :
          fl = [pc |-> "catch-up", mpr |-> mpr, names |-> names, next_sample |-> 1,
                to |-> to, metrics |-> m, buffered |-> Metrics_len(m),
                handed |-> {}, twice |-> FALSE]
    /\ win = NoWindow /\ wop = NoWop
    /\ asp = NoAsp /\ ahist = <<>> /\ aop = NoAop
    /\ proc = NoProc /\ cfg = NoCfg /\ pop = NoPop
    /\ sd = NoSd /\ orch = NoOrch
    /\ selq = NoSel /\ wf = NoWf /\ src = NoSrc
    /\ spx = NoSpx /\ hgp = NoHgp /\ smp = NoSmp
    /\ boot = NoBoot /\ pg = NoPg

\* while next_sample < to: sample and step, then enter the inner loop.
FlSample ==
    /\ fl.pc = "catch-up" /\ fl.next_sample < fl.to
    /\ fl' = [fl EXCEPT !.pc = "flush",
                        !.metrics = Fl_sample(@, fl.names, fl.next_sample),
                        !.buffered = @ + Cardinality(fl.names),
                        !.next_sample = @ + 1]
    /\ UNCHANGED <<win, wop, asp, ahist, aop, proc, cfg, pop, sd, orch, selq, wf, src,
                   spx, hgp, smp, boot, pg>>

\* One iteration of while metrics.len() > metrics_per_request.
FlFlush ==
    /\ fl.pc = "flush" /\ Metrics_len(fl.metrics) > fl.mpr
    /\ fl' = Fl_write(fl)
    /\ UNCHANGED <<win, wop, asp, ahist, aop, proc, cfg, pop, sd, orch, selq, wf, src,
                   spx, hgp, smp, boot, pg>>

FlFlushEnd ==
    /\ fl.pc = "flush" /\ ~(Metrics_len(fl.metrics) > fl.mpr)
    /\ fl' = [fl EXCEPT !.pc = "catch-up"]
    /\ UNCHANGED <<win, wop, asp, ahist, aop, proc, cfg, pop, sd, orch, selq, wf, src,
                   spx, hgp, smp, boot, pg>>

FlCatchUpEnd ==
    /\ fl.pc = "catch-up" /\ ~(fl.next_sample < fl.to)
    /\ fl' = [fl EXCEPT !.pc = "residual"]
    /\ UNCHANGED <<win, wop, asp, ahist, aop, proc, cfg, pop, sd, orch, selq, wf, src,
                   spx, hgp, smp, boot, pg>>

\* One iteration of while !metrics.is_empty().
FlResidual ==
    /\ fl.pc = "residual" /\ ~Metrics_is_empty(fl.metrics)
    /\ fl' = Fl_write(fl)
    /\ UNCHANGED <<win, wop, asp, ahist, aop, proc, cfg, pop, sd, orch, selq, wf, src,
                   spx, hgp, smp, boot, pg>>

\* cleanup and Ok(()).
FlReturn ==
    /\ fl.pc = "residual" /\ Metrics_is_empty(fl.metrics)
    /\ fl' = [fl EXCEPT !.pc = "returned"]
    /\ UNCHANGED <<win, wop, asp, ahist, aop, proc, cfg, pop, sd, orch, selq, wf, src,
                   spx, hgp, smp, boot, pg>>

FlNext == FlSample \/ FlFlush \/ FlFlushEnd \/ FlCatchUpEnd \/ FlResidual \/ FlReturn

SpecFlush == FlInit /\ [][FlNext]_vars

\* The task is not suspended for ever: a loop iteration that can run, runs.
SpecFlushFair == SpecFlush /\ WF_vars(FlNext)

(***************************************************************************)
(* for_traces without failures: the pages of root spans, their chunks and  *)
(* the roots given to the handler, over stores in which roots may share a  *)
(* start time.                                                             *)
(***************************************************************************)
MaxRootStart == 2           \* start times of the roots in the store: 0..MaxRootStart

PgIds == {"a", "b", "default"}

\* The stores: every id is absent or the root of one trace.
PgStores ==
    {{Root(placed[id], id) : id \in DOMAIN placed} :
        placed \in UNION {[ids -> 0..MaxRootStart] : ids \in SUBSET PgIds}}

PgInit ==
    /\ \E store \in PgStores, to \in 1..(MaxRootStart + 1) :
          pg = [pc |-> "page", store |-> store, from |-> 0, to |-> to, last |-> None,
                hits |-> <<>>, chunk |-> <<>>, delivered |-> <<>>]
    /\ win = NoWindow /\ wop = NoWop
    /\ asp = NoAsp /\ ahist = <<>> /\ aop = NoAop
    /\ proc = NoProc /\ cfg = NoCfg /\ pop = NoPop
    /\ sd = NoSd /\ orch = NoOrch
    /\ selq = NoSel /\ wf = NoWf /\ src = NoSrc
    /\ spx = NoSpx /\ hgp = NoHgp /\ smp = NoSmp
    /\ boot = NoBoot /\ fl = NoFl

\* One page: no hits end the loop, else last is the sort value of the last hit.
PgPage ==
    /\ pg.pc = "page"
    /\ LET hits == Store_page(pg.store, pg.from, pg.to, pg.last)
       IN  pg' = IF hits = <<>> THEN [pg EXCEPT !.pc = "returned"]
                 ELSE [pg EXCEPT !.pc = "spans",
                                 !.last = Some(hits[Len(hits)].start_time),
                                 !.hits = hits]
    /\ UNCHANGED <<win, wop, asp, ahist, aop, proc, cfg, pop, sd, orch, selq, wf, src,
                   spx, hgp, smp, boot, fl>>

\* The spans of the next chunk of roots are fetched.
PgSpans ==
    /\ pg.pc = "spans"
    /\ LET n == Min(Len(pg.hits), ChunkSize)
       IN  pg' = [pg EXCEPT !.pc = "handle",
                            !.chunk = SubSeq(pg.hits, 1, n),
                            !.hits = SubSeq(pg.hits, n + 1, Len(pg.hits))]
    /\ UNCHANGED <<win, wop, asp, ahist, aop, proc, cfg, pop, sd, orch, selq, wf, src,
                   spx, hgp, smp, boot, fl>>

\* handler.handle(root, spans) for the next root of the chunk.
PgHandle ==
    /\ pg.pc = "handle"
    /\ LET rest == Tail(pg.chunk)
       IN  pg' = [pg EXCEPT !.delivered = Append(@, Head(pg.chunk)),
                            !.chunk = rest,
                            !.pc = IF rest # <<>> THEN "handle"
                                   ELSE IF pg.hits # <<>> THEN "spans"
                                   ELSE "page"]
    /\ UNCHANGED <<win, wop, asp, ahist, aop, proc, cfg, pop, sd, orch, selq, wf, src,
                   spx, hgp, smp, boot, fl>>

PgNext == PgPage \/ PgSpans \/ PgHandle

SpecPaging == PgInit /\ [][PgNext]_vars

(***************************************************************************)
(* Properties of the window.                                               *)
(***************************************************************************)
\* Bin boundaries between the start of w and t truncated to the bin width.
Boundaries(w, t) ==
    LET bw == Window_bin_width(w)
        tt == duration_trunc(t, bw)
    IN  IF tt > w.start THEN (tt - w.start) \div bw ELSE 0

\* C5: after new_init and after advance_init(t, init), start is a multiple of
\* bin_width and t - start < bin_width; advance_init performs one step per
\* bin boundary between the old start and t truncated: i moves by one modulo
\* N per step, start by one bin_width per step, the bin entered by step j
\* holds init(old start + j * bin_width) unless a later step of the same call
\* reused it, and a bin no step entered is unchanged.
Thm_C5_AdvanceInitSteps ==
    LET pre == wop.pre
        bw == Window_bin_width(win)
        N == Window_num_bins(win)
        k == Boundaries(pre, wop.t)
        slot(j) == ((pre.i + j) % N) + 1
    IN  /\ wop.op \in {"new_init", "advance_init"} =>
              /\ win.start % bw = 0
              /\ wop.t - win.start < bw
        /\ wop.op = "new_init" => win.start <= wop.t /\ win.i = 0
        /\ wop.op = "advance_init" =>
              /\ win.i = (pre.i + k) % N
              /\ win.start = pre.start + k * bw
              /\ win.bin_width = pre.bin_width
              /\ Len(win.ring) = Len(pre.ring)
              /\ \A j \in 1..k :
                    k - j < N => win.ring[slot(j)] = InitId[pre.start + j * bw]
              /\ \A q \in 1..N :
                    (\A j \in 1..k : slot(j) # q) => win.ring[q] = pre.ring[q]

\* C5 witness: an advance_init that crossed more boundaries than the ring has bins.
Wit_C5_AdvanceWraps ==
    /\ wop.op = "advance_init"
    /\ Window_num_bins(win) = 2
    /\ Boundaries(wop.pre, wop.t) >= 3
    /\ wop.pre.i = 1

\* C6: advance_init / advance_with called with t earlier than
\* start + bin_width leaves i, start and the ring unchanged and yields no output.
Thm_C6_NeverBackwards ==
    (/\ wop.op \in {"advance_init", "advance_with"}
     /\ wop.t < wop.pre.start + Window_bin_width(wop.pre))
        => (win = wop.pre /\ wop.outputs = <<>>)

\* C6 witness: an advance on a window that had advanced, with t before its start.
Wit_C6_Regress ==
    /\ wop.op = "advance_init"
    /\ wop.t < wop.pre.start
    /\ wop.pre.i # 0
    /\ win = wop.pre

(***************************************************************************)
(* Properties of the anomaly-score processor.                              *)
(***************************************************************************)
\* The inserts so far came with non-decreasing timestamps, none earlier than
\* the creation of the processor.
NonDecreasing(h) ==
    /\ \A k \in 1..(Len(h) - 1) : h[k].t <= h[k + 1].t
    /\ \A k \in 1..Len(h) : aop.created <= h[k].t

\* C3: after every insert (with time moving forward), in every immediate and reference window
\* first().count <= current().count (the differenced count is not negative).
Cex_C3_CountNotNegative ==
    (aop.op = "insert" /\ NonDecreasing(ahist)) =>
        \A w \in AnomalyScore_windows(asp) :
            RLe(Window_first(w).count, Window_current(w).count)

\* Number of observations inserted at a time in [lo, hi).
InsertedBetween(h, lo, hi) ==
    Cardinality({k \in 1..Len(h) : lo <= h[k].t /\ h[k].t < hi})

\* C4: after inserts with non-decreasing timestamps, each window's count()
\* is the number of values inserted between the start of its oldest bin and
\* the start of its current bin.
Cex_C4_CountIsWindowed ==
    (aop.op = "insert" /\ NonDecreasing(ahist)) =>
        \A w \in AnomalyScore_windows(asp) :
            Window_count(w) =
                Rat(InsertedBetween(ahist,
                    w.start - (Window_num_bins(w) - 1) * Window_bin_width(w),
                    w.start))

(***************************************************************************)
(* Properties of the processor tree.                                       *)
(***************************************************************************)
\* The (span index, outer rule list index) pairs of a trace that insert
\* routes to configuration c of processor p.
Routed(p, trace, c) ==
    {sj \in (1..Len(trace)) \X (1..Len(p.rules)) :
        LET rule == Rules_find(p.rules[sj[2]], trace[sj[1]],
                               Trace_parent(trace, trace[sj[1]]))
        IN  IsSome(rule) /\ Unwrap(rule).config = c}

\* The key tuple of span s of the trace in configuration c.
KeyOf(p, trace, c, s) ==
    SpanProcessor_key(p.groups[c].config, trace[s], Trace_parent(trace, trace[s]))

\* C1: after insert(t, ...) the group of every span that was routed to a
\* configuration has last_seen = t, whether the insert created the group
\* or the group existed.
Cex_C1_LastSeenRefreshed ==
    pop.op = "insert" =>
        \A c \in DOMAIN proc.groups :
            \A sj \in Routed(pop.pre, pop.trace, c) :
                proc.groups[c].groups[KeyOf(pop.pre, pop.trace, c, sj[1])].last_seen
                    = pop.t

\* C2: after cleanup(T) no group with last_seen < T remains in any
\* configuration, and every group with last_seen >= T is still there with
\* its last_seen and metric state unchanged.
Thm_C2_Cleanup ==
    pop.op = "cleanup" =>
        /\ DOMAIN proc.groups = DOMAIN pop.pre.groups
        /\ \A c \in DOMAIN proc.groups :
              LET before == pop.pre.groups[c].groups
                  after == proc.groups[c].groups
              IN  /\ \A k \in DOMAIN after : after[k].last_seen >= pop.t
                  /\ \A k \in DOMAIN before :
                        before[k].last_seen >= pop.t =>
                            k \in DOMAIN after /\ after[k] = before[k]
                  /\ DOMAIN after \subseteq DOMAIN before
                  /\ proc.groups[c].config = pop.pre.groups[c].config

\* C2 witness: a cleanup that dropped one group of a configuration and kept
\* another one, last seen exactly at T.
Wit_C2_DropsAndKeeps ==
    /\ pop.op = "cleanup"
    /\ \E c \in DOMAIN proc.groups :
          /\ \E k \in DOMAIN pop.pre.groups[c].groups : k \notin DOMAIN proc.groups[c].groups
          /\ \E k \in DOMAIN proc.groups[c].groups :
                proc.groups[c].groups[k].last_seen = pop.t

\* The configurations whose key set an update changes.
KeyChanged(p, config) ==
    {c \in DOMAIN p.groups \cap DOMAIN config.configs :
        p.groups[c].config.key # config.configs[c].key}

\* The groups that insert created in configuration c.
Created(c) ==
    IF c \in DOMAIN pop.pre.groups
    THEN DOMAIN proc.groups[c].groups \ DOMAIN pop.pre.groups[c].groups
    ELSE {}

\* C7: an update that changes a configuration's key set leaves that
\* configuration without groups; a group that a later insert creates starts
\* from fresh metric state: it is last seen at the insert, and its lifetime
\* counters count the spans of that insert only.
Thm_C7_KeyChangeDropsGroups ==
    /\ pop.op = "update" =>
          \A c \in KeyChanged(pop.pre, pop.config) : DOMAIN proc.groups[c].groups = {}
    /\ pop.op = "insert" =>
          \A c \in DOMAIN proc.groups : \A k \in Created(c) :
              LET g == proc.groups[c].groups[k]
                  n == Cardinality({sj \in Routed(pop.pre, pop.trace, c) :
                                        KeyOf(pop.pre, pop.trace, c, sj[1]) = k})
              IN  /\ g.last_seen = pop.t
                  /\ n > 0
                  /\ DOMAIN g.metrics = DOMAIN proc.groups[c].config.metrics
                  /\ \A m \in DOMAIN g.metrics :
                        /\ g.metrics[m].source.kind = "Count"
                              => g.metrics[m].source.count = n
                        /\ (/\ g.metrics[m].source.kind = "Duration"
                            /\ IsSome(g.metrics[m].stats.mean_stddev)
                            /\ Unwrap(g.metrics[m].stats.mean_stddev).alg = "CountSum")
                              => Unwrap(g.metrics[m].stats.mean_stddev).count = n

\* C7 witness: an insert that creates a group in a configuration whose groups
\* an earlier key-changing update had dropped.
Wit_C7_RecreatedAfterDrop ==
    /\ pop.op = "insert"
    /\ pop.dropped > 0
    /\ \E c \in DOMAIN proc.groups :
          /\ DOMAIN pop.pre.groups[c].groups = {}
          /\ Created(c) # {}

\* The statistics named by field f of a stats record, configured alike
\* before and after.
SameSub(old, new, f) ==
    CASE f = "anomaly_score" -> old.anomaly_score = new.anomaly_score
      [] f = "mean_stddev"   -> old.mean_stddev = new.mean_stddev
      [] f = "summary"       -> old.summary = new.summary
      [] f = "histogram"     -> old.histogram = new.histogram

SubOf(stats, f) ==
    CASE f = "anomaly_score" -> stats.anomaly_score
      [] f = "mean_stddev"   -> stats.mean_stddev
      [] f = "summary"       -> stats.summary
      [] f = "histogram"     -> stats.histogram

StatsFields == {"anomaly_score", "mean_stddev", "summary", "histogram"}

\* C8: an update with an unchanged key set preserves every group and its
\* last_seen; for every metric whose source is unchanged (whatever the
\* MetricSource variant) the source state and every sub-processor whose
\* configuration is unchanged keep their state; a sub-processor disabled in
\* the new StatsConfig is dropped.
Cex_C8_CompatibleUpdatePreserves ==
    pop.op = "update" =>
        \A c \in (DOMAIN pop.pre.groups \cap DOMAIN pop.config.configs)
                    \ KeyChanged(pop.pre, pop.config) :
            LET old == pop.pre.groups[c]
                new == proc.groups[c]
                ncfg == pop.config.configs[c]
            IN  /\ DOMAIN new.groups = DOMAIN old.groups
                /\ \A k \in DOMAIN old.groups :
                      /\ new.groups[k].last_seen = old.groups[k].last_seen
                      /\ \A m \in DOMAIN ncfg.metrics \cap DOMAIN old.config.metrics :
                            LET om == old.groups[k].metrics[m]
                                nm == new.groups[k].metrics[m]
                                oc == old.config.metrics[m]
                                nc == ncfg.metrics[m]
                            IN  /\ \A f \in StatsFields :
                                      ~IsSome(SubOf(nc.stats, f))
                                          => ~IsSome(SubOf(nm.stats, f))
                                /\ oc.source = nc.source =>
                                      /\ nm.source = om.source
                                      /\ \A f \in StatsFields :
                                            SameSub(oc.stats, nc.stats, f) =>
                                                SubOf(nm.stats, f) = SubOf(om.stats, f)

\* C9: update is idempotent: updating the result of update(t, cfg) with
\* the same t and cfg changes nothing.
Thm_C9_UpdateIdempotent ==
    pop.op = "update" => TraceProcessor_update(proc, pop.t, pop.config) = proc

\* C9 witness: an update that kept groups and rebuilt some of their statistics.
Wit_C9_UpdateOfLiveGroups ==
    /\ pop.op = "update"
    /\ pop.t > 0
    /\ proc # pop.pre
    /\ \E c \in DOMAIN proc.groups :
          /\ c \in DOMAIN pop.pre.groups
          /\ DOMAIN proc.groups[c].groups # {}
          /\ proc.groups[c].groups # pop.pre.groups[c].groups

\* C10: saving a processor and loading the saved state under its
\* configuration, at any time, yields the same configurations, groups,
\* last_seen values, source state and statistics state.
Thm_C10_LoadSaveRoundTrip ==
    /\ \A t \in PTimes : TraceProcessor_load(t, TraceProcessor_save(proc), cfg) = proc
    /\ pop.op = "load" => proc = pop.pre

\* C10 witness: a load of a state with a group that was last seen at another
\* time than the load and whose Count source had counted spans.
Wit_C10_LoadedLiveState ==
    /\ pop.op = "load"
    /\ \E c \in DOMAIN proc.groups : \E k \in DOMAIN proc.groups[c].groups :
          /\ proc.groups[c].groups[k].last_seen # pop.t
          /\ \E m \in DOMAIN proc.groups[c].groups[k].metrics :
                /\ proc.groups[c].groups[k].metrics[m].source.kind = "Count"
                /\ proc.groups[c].groups[k].metrics[m].source.count > 0

(***************************************************************************)
(* Properties of rule routing.                                             *)
(***************************************************************************)
\* Observations that group k of configuration c has received: the lifetime
\* count of its Duration metric, which takes one value from every span.
Observations(p, c, k) ==
    IF c \in DOMAIN p.groups /\ k \in DOMAIN p.groups[c].groups
    THEN Unwrap(p.groups[c].groups[k].metrics["duration"].stats.mean_stddev).count
    ELSE 0

\* Rule j of an outer list is the first one whose selector matches.
FirstMatch(rules, j, span, parent) ==
    /\ SpanSelector_matches(rules[j].select, span, parent)
    /\ \A i \in 1..(j - 1) : ~SpanSelector_matches(rules[i].select, span, parent)

\* The (span, outer list) pairs of the trace whose first matching rule names
\* configuration c and whose span has key tuple k there.
FirstMatches(p, trace, c, k) ==
    {sl \in (1..Len(trace)) \X (1..Len(p.rules)) :
        LET span == trace[sl[1]]
            parent == Trace_parent(trace, span)
            rules == p.rules[sl[2]]
        IN  /\ \E j \in 1..Len(rules) :
                  FirstMatch(rules, j, span, parent) /\ rules[j].config = c
            /\ SpanProcessor_key(p.groups[c].config, span, parent) = k}

\* C11: insert gives a group of a configuration new observations exactly
\* when, for some span of the trace with that key and some outer rule list,
\* the first rule of the list that matches (span, parent) names the
\* configuration; later matching rules of a list and lists without a match
\* contribute nothing.
Thm_C11_FirstMatchRouting ==
    pop.op = "insert" =>
        \A c \in DOMAIN proc.groups :
            /\ DOMAIN pop.pre.groups[c].groups \subseteq DOMAIN proc.groups[c].groups
            /\ \A k \in DOMAIN proc.groups[c].groups :
                  (Observations(proc, c, k) > Observations(pop.pre, c, k))
                      <=> (FirstMatches(pop.pre, pop.trace, c, k) # {})

\* C11 witness: an insert of a child span that matches two rules of one outer
\* list; the configuration of the first got it and the second one's group for
\* its key did not.
Wit_C11_SecondRuleSkipped ==
    /\ pop.op = "insert"
    /\ \E s \in 1..Len(pop.trace) : \E l \in 1..Len(pop.pre.rules) :
          LET span == pop.trace[s]
              parent == Trace_parent(pop.trace, span)
              rules == pop.pre.rules[l]
          IN  /\ Len(rules) = 2
              /\ SpanSelector_matches(rules[1].select, span, parent)
              /\ SpanSelector_matches(rules[2].select, span, parent)
              /\ rules[1].config # rules[2].config
              /\ Observations(proc, rules[1].config,
                    SpanProcessor_key(proc.groups[rules[1].config].config, span, parent)) > 0
              /\ Observations(proc, rules[2].config,
                    SpanProcessor_key(proc.groups[rules[2].config].config, span, parent)) = 0

\* C12: a span that several outer rule lists route to the same configuration
\* is inserted there once: a group's observations grow by the number of spans
\* routed to it, not by the number of (span, outer list) pairs.
Cex_C12_InsertedOnce ==
    pop.op = "insert" =>
        \A c \in DOMAIN proc.groups : \A k \in DOMAIN proc.groups[c].groups :
            Observations(proc, c, k) - Observations(pop.pre, c, k)
                = Cardinality({sl[1] : sl \in FirstMatches(pop.pre, pop.trace, c, k)})

(***************************************************************************)
(* Properties of the SelfDuration source.                                  *)
(***************************************************************************)
\* The time units of the span's interval that lie inside at least one child.
Covered(span, children) ==
    {x \in span.start_time..(span.start_time + span.duration - 1) :
        \E k \in 1..Len(children) :
            /\ children[k].start_time <= x
            /\ x < children[k].start_time + children[k].duration}

\* C13: for every span and every list of children sorted by start time, the
\* SelfDuration source emits the span's duration minus the time of the span's
\* interval that is covered by at least one child.
Cex_C13_SelfDuration ==
    sd.op = "insert" =>
        sd.values = <<Rat(sd.span.duration - Cardinality(Covered(sd.span, sd.children)))>>

(***************************************************************************)
(* Properties of the orchestrator task.                                    *)
(***************************************************************************)
\* C14: for every series (config, group, metric and labels) the timestamps
\* of the sample points handed to the metric buffer are strictly increasing
\* over the whole run, across ticks, aborted and retried ticks included:
\* every sample handed by the running step is later than the sample handed
\* before it for the same series.
Cex_C14_TimestampsIncrease ==
    \A k \in DOMAIN orch.ss.handed :
        IsSome(orch.ss.handed[k].prev)
            => Unwrap(orch.ss.handed[k].prev) < orch.ss.handed[k].t

\* C15: every remote-write request carries at most metrics_per_request
\* series, at every flush point: the flush inside the trace handler, the
\* flush of the catch-up loop and the flush of the residual buffer.
Thm_C15_RequestSize ==
    \A k \in DOMAIN orch.ss.requests : orch.ss.requests[k].series <= orch.mpr

\* A tick that wrote requests at all three flush points, one of them full
\* while series were left in the buffer.
Wit_C15_AllFlushPoints ==
    /\ \A point \in {"handler", "catch-up", "residual"} :
          \E k \in DOMAIN orch.ss.requests : orch.ss.requests[k].point = point
    /\ \E k \in DOMAIN orch.ss.requests :
          /\ orch.ss.requests[k].series = orch.mpr
          /\ k < Len(orch.ss.requests)
          /\ orch.ss.requests[k + 1].point = "residual"

\* C16: when a tick aborts with an error, the state written afterwards
\* carries as last the from the tick started with, not its to.
Cex_C16_FailedTickWritesFrom ==
    (orch.pc = "select" /\ orch.wrote.kind = "tick" /\ orch.tick.res = "err")
        => orch.wrote.last = orch.tick.from

\* C17: from advances to the tick's to exactly when the tick completes
\* without error: after a failed tick from is what it was, after a
\* successful tick it is the tick's to, and the interval of the next tick
\* starts there, with no gap and no overlap after a success.
Thm_C17_FromAdvances ==
    /\ (orch.pc \in {"write", "select"} /\ orch.ticks > 0)
          => orch.from = IF orch.tick.res = "ok" THEN orch.tick.to ELSE orch.tick.from
    /\ orch.pc \notin {"write", "select"} => orch.from = orch.tick.from
    /\ orch.ticks >= 2
          => orch.tick.from = IF orch.prev.res = "ok" THEN orch.prev.to ELSE orch.prev.from

\* A successful tick followed by a failed one, both over a non-empty interval.
Wit_C17_SuccessThenFailure ==
    /\ orch.pc = "select" /\ orch.ticks = 2
    /\ orch.prev.res = "ok" /\ orch.prev.from < orch.prev.to
    /\ orch.tick.res = "err" /\ orch.tick.from < orch.tick.to

\* C18: in every tick in which a point in time was opened, the request that
\* deletes it is issued before for_traces returns, whether the inner loop
\* finished normally or ended with an error of a page fetch, of a span
\* fetch, of a missing pit id or of the trace handler: once for_traces has
\* returned no point in time is left open.
Thm_C18_PitDeleted ==
    orch.pc \in {"catchup", "residual", "write", "select"} => orch.pit # "open"

\* for_traces returned the error of the trace handler, the point in time deleted.
Wit_C18_DeletedAfterHandlerError ==
    orch.pc = "write" /\ orch.res = "handler_error" /\ orch.pit = "deleted"

\* C19: when termination is signalled during a tick, the tick runs to
\* completion, the point in time released and the state written, before
\* the task returns.
Thm_C19_TickCompletesBeforeReturn ==
    orch.pc = "done" =>
        /\ orch.pit # "open"
        /\ orch.written = orch.ticks
        /\ orch.ticks > 0 => orch.tick.res # "none"

\* The task returned after a tick during which shutdown was called and
\* which opened a point in time.
Wit_C19_StoppedDuringTick ==
    /\ orch.pc = "done" /\ orch.term_in_tick
    /\ orch.pit = "deleted" /\ orch.wrote.kind = "tick"

\* C20: a configuration posted during a tick changes neither the
\* configuration nor the processor the tick works with; it is applied
\* (processor.update at from, the interval reset, the state written with
\* last = from) only after the tick, in the select loop, and of several
\* configurations posted meanwhile only the latest is applied.
Thm_C20_ConfigAppliedAfterTick ==
    [][/\ orch'.posts # orch.posts
             => (orch'.config = orch.config /\ orch'.processor = orch.processor)
       /\ orch'.config # orch.config
             => /\ orch.pc = "select" /\ orch'.pc = "select"
                /\ orch.pending # <<>>
                /\ orch'.config = orch.pending[Len(orch.pending)]
                /\ orch'.processor
                      = TraceProcessor_update(orch.processor, orch.from, orch'.config.trace)
                /\ orch'.from = orch.from
                /\ orch'.due = orch.now
                /\ orch'.wrote = [kind |-> "config", last |-> orch.from]]_vars

\* Two configurations were posted during a tick and the second one was
\* applied after it.
Wit_C20_LatestApplied ==
    /\ orch.applied.pending = <<Config_default, Config_posted>>
    /\ orch.applied.in_tick
    /\ orch.config = Config_posted
    /\ orch.ticks > 0

\* C21: within a tick no sample point with a timestamp earlier than the
\* tick's start time minus one hour is added to the metric buffer, neither
\* by the loop of the trace handler nor by the catch-up loop after the last
\* page.
Cex_C21_NoSampleOlderThanHour ==
    \A k \in DOMAIN orch.ss.handed : orch.ss.handed[k].t >= orch.min_timestamp

\* The count, mean and ci values that sample reports for a window.
AnomalyScore_sample_count(w) == Window_count(w)
AnomalyScore_sample_mean(w) == Window_mean(w)

\* C22: a sample taken at time t reports the statistics of the window
\* ending at t: when every value was inserted more than num_bins * bin_width
\* (and the bin the sample falls in) before t, the values have rolled off
\* and the count reported for the window is 0, also when nothing was
\* inserted between the last insert and t.
Cex_C22_SampleRollsOff ==
    (aop.op = "sample" /\ NonDecreasing(ahist)) =>
        \A w \in AnomalyScore_windows(asp) :
            (\A k \in 1..Len(ahist) :
                ahist[k].t + (Window_num_bins(w) + 1) * Window_bin_width(w) <= aop.t)
                => AnomalyScore_sample_count(w) = Rat(0)

\* C26: when the differenced count of a window is <= 1 (0 right after
\* creation or when no value arrived during the window), the mean and ci
\* that sample emits for the window are not the result of a division by
\* zero: both are numbers.
Cex_C26_NoDivisionByZeroEmitted ==
    aop.op = "sample" =>
        \A w \in AnomalyScore_windows(asp) :
            RLe(Window_count(w), Rat(1))
                => /\ IsFinite(AnomalyScore_sample_mean(w))
                   /\ Window_confidence_interval_is_finite(w)

(***************************************************************************)
(* Properties of the selectors.                                            *)
(***************************************************************************)
\* C23: Match(k, re) and NoMatch(k, re) apply to string values only: when
\* k resolves to a value that is no string Match yields false and NoMatch
\* yields true; when k resolves to a string s they yield re.matches(s) and
\* its negation.
Cex_C23_MatchOnStringsOnly ==
    (selq.op = "matches" /\ selq.sel.op \in {"Match", "NoMatch"}) =>
        LET v == SpanKey_get(selq.sel.key, selq.span, None)
        IN  IsSome(v) =>
                IF Unwrap(v).ty = "String"
                THEN selq.result = IF selq.sel.op = "Match"
                                   THEN Regex_matches(selq.sel.re, Unwrap(v).s)
                                   ELSE ~Regex_matches(selq.sel.re, Unwrap(v).s)
                ELSE selq.result = (selq.sel.op = "NoMatch")

\* C24: Any matches a span iff at least one member matches, a member whose
\* key resolves to a value of the wrong type being false instead of
\* failing: Any[Inside(k, 200..299), Match(k, ^2..$)] matches a span whose
\* tag k is the string "200"; All[] is true and Any[] is false.
Thm_C24_AnyAndWrongType ==
    selq.op = "matches" =>
        /\ selq.result \in BOOLEAN
        /\ selq.sel.op = "Any"
              => (selq.result <=> \E k \in 1..Len(selq.sel.sels) :
                                     SpanSelector_matches(selq.sel.sels[k], selq.span, None))
        /\ (selq.sel.op = "Inside" /\ FindTag(selq.span.tags, "k") = Some(TagString("200")))
              => ~selq.result
        /\ (selq.sel = SelAny(<<SelInside(SelKey, Range2xx), SelMatch(SelKey, Re2xx)>>)
             /\ FindTag(selq.span.tags, "k") = Some(TagString("200")))
              => selq.result
        /\ selq.sel = SelAll(<<>>) => selq.result
        /\ selq.sel = SelAny(<<>>) => ~selq.result

\* The selector of the example applied to the string "200".
Wit_C24_AnyOverStringTag ==
    /\ selq.op = "matches"
    /\ selq.sel = SelAny(<<SelInside(SelKey, Range2xx), SelMatch(SelKey, Re2xx)>>)
    /\ FindTag(selq.span.tags, "k") = Some(TagString("200"))
    /\ selq.result

(***************************************************************************)
(* Properties of the Welford accumulator.                                  *)
(***************************************************************************)
\* C25: for all value sequences xs and ys, empty ones included, merging
\* the accumulator of xs with the accumulator of ys gives the count, mean
\* and M2 of inserting the values of xs and then those of ys, and the merge
\* divides by no zero count (its results are numbers).
Cex_C25_MergeIsSequentialInsert ==
    wf.op = "merge" =>
        /\ IsFinite(wf.merged.count) /\ IsFinite(wf.merged.mean) /\ IsFinite(wf.merged.m2)
        /\ wf.merged = Welford_of(wf.xs \o wf.ys)

(***************************************************************************)
(* Properties of the metric sources.                                       *)
(***************************************************************************)
\* The integer value of tag name among tags, as an Option.
IntTag(tags, name) == TagValue_as_int(FindTag(tags, name))

\* C27: TagExcept on a span whose integer tag is n emits n minus the sum of
\* the same tag over exactly the children whose key tag equals the span's
\* key tag value, or over all children when the span has no key tag; when
\* the span lacks the integer tag nothing is emitted.
Cex_C27_TagExceptSubtractsMatchingChildren ==
    (src.op = "insert" /\ src.pre.kind = "TagExcept") =>
        LET n == IntTag(src.span.tags, src.pre.tag)
            id == FindTag(src.span.tags, src.pre.key)
            matching(c) == IsSome(id) => FindTag(c.tags, src.pre.key) = id
            cn == SumSeq([k \in 1..Len(src.children) |->
                            LET c == src.children[k]
                            IN  IF matching(c) /\ IsSome(IntTag(c.tags, src.pre.tag))
                                THEN Unwrap(IntTag(c.tags, src.pre.tag)) ELSE 0])
        IN  IF IsSome(n) THEN src.values = <<Rat(Unwrap(n) - cn)>>
            ELSE src.values = <<>>

\* The bin of w that is m bins younger than its oldest bin.
Window_aged(w, m) == w.ring[((w.i + 1 + m) % Len(w.ring)) + 1]

\* C28: an insert at t into a Count source forwards one observation per bin
\* boundary crossed between the window's current bin and the bin of t, the
\* k-th being the sum of the bins that k - 1 advances have left, divided by
\* the window width in minutes; the span is counted in the current bin
\* after these, the lifetime counter grows by one, and nothing is forwarded
\* when t falls in or before the current bin.
Thm_C28_CountEmitsPerBoundary ==
    (src.op = "insert" /\ src.pre.kind = "Count") =>
        LET w == src.pre.window
            bw == Window_bin_width(w)
            N == Len(w.ring)
            tt == duration_trunc(src.t, bw)
            crossed == IF tt < w.start + bw THEN 0 ELSE (tt - w.start) \div bw
            left(j) == SumSeq([m \in 1..N |-> IF m - 1 >= j THEN Window_aged(w, m - 1) ELSE 0])
        IN  /\ Len(src.values) = crossed
            /\ \A k \in 1..crossed :
                  src.values[k] = RDiv(Rat(left(k - 1)), RNorm(bw * N, 60))
            /\ src.p.count = src.pre.count + 1
            /\ Window_current(src.p.window)
                  = (IF crossed = 0 THEN Window_current(w) ELSE 0) + 1

\* Two boundaries are crossed by an insert into a window of several bins
\* that holds spans in more than one bin.
Wit_C28_TwoBoundariesCrossed ==
    /\ src.op = "insert" /\ src.pre.kind = "Count"
    /\ Len(src.pre.window.ring) >= 2
    /\ Len(src.values) = 2
    /\ src.values[1] # src.values[2]
    /\ src.values[2] # Rat(0)
    /\ Window_current(src.pre.window) > 0
    /\ Window_first(src.pre.window) > 0

(***************************************************************************)
(* Properties of advance_with and of the accessors of the window.          *)
(***************************************************************************)
\* The window that m steps of the advance loop leave when started on w: bin
\* j holds what the last step that landed on it stored there.
Window_after(w, m) ==
    LET N == Len(w.ring)
        bw == Window_bin_width(w)
        landed(j) == {q \in 1..m : (w.i + q) % N = j}
        last(j) == CHOOSE q \in landed(j) : \A r \in landed(j) : r <= q
    IN  [i |-> (w.i + m) % N,
         start |-> w.start + m * bw,
         bin_width |-> w.bin_width,
         ring |-> [k \in 1..N |->
                     IF landed(k - 1) = {} THEN w.ring[k]
                     ELSE InitId[w.start + last(k - 1) * bw]]]

\* The bins that an advance to t moves w by.
Window_crossed(w, t) ==
    LET bw == Window_bin_width(w)
        tt == duration_trunc(t, bw)
    IN  IF tt < w.start + bw THEN 0 ELSE (tt - w.start) \div bw

\* C29: advance_with yields one output per advanced bin, the k-th taken on
\* the window that the first k - 1 advances have left (ring, i and start
\* not yet changed by the k-th), oldest bin first.
Thm_C29_OutputBeforeAdvance ==
    wop.op = "advance_with" =>
        LET n == Window_crossed(wop.pre, wop.t)
        IN  /\ Len(wop.outputs) = n
            /\ \A k \in 1..n : wop.outputs[k] = Window_after(wop.pre, k - 1)
            /\ win = Window_after(wop.pre, n)

\* An advance_with over more bins than the ring has: some output sees a
\* bin that an earlier advance of the same call has stored.
Wit_C29_OutputSeesEarlierAdvance ==
    /\ wop.op = "advance_with"
    /\ Len(wop.outputs) > Len(wop.pre.ring)
    /\ Len(wop.pre.ring) >= 2
    /\ \E k \in 1..Len(wop.outputs) : wop.outputs[k].ring # wop.pre.ring

\* C30: for every ring size and every index, bins() visits every element
\* of the ring once, from first() = ring[(i + 1) mod N] to current() =
\* ring[i], oldest to newest, and its slices stay inside the ring.
Thm_C30_BinsOldestToNewest ==
    LET N == Len(win.ring)
        bins == Window_bins(win)
    IN  /\ Window_bins_first(win) \in 0..N
        /\ Len(bins) = N
        /\ \A m \in 1..N : bins[m] = win.ring[((win.i + m) % N) + 1]
        /\ bins[1] = Window_first(win)
        /\ bins[N] = Window_current(win)

\* The index is the last of a ring of several bins, where i + 1 % N is N.
Wit_C30_IndexAtEndOfRing ==
    /\ Len(win.ring) >= 2
    /\ win.i = Len(win.ring) - 1
    /\ Window_bins_first(win) = Len(win.ring)
    /\ wop.op \in {"advance_init", "advance_with"}

(***************************************************************************)
(* Properties of the groups of a span processor.                           *)
(***************************************************************************)
\* The key tuple of the k-th inserted span: one (key, value) pair per
\* configured key whose extraction is present.
Spx_tuple(k) ==
    LET ins == spx.inserted[k]
    IN  {<<key, Unwrap(SpanKey_get(key, ins.span, ins.parent))>> :
            key \in {key \in spx.p.config.key :
                        SpanKey_get(key, ins.span, ins.parent) # None}}

\* A group key as a set of (key, value) pairs.
Spx_group_tuple(g) == {<<key, g[key]>> : key \in DOMAIN g}

\* The spans that insert has put into group g.
Spx_group_count(g) == Unwrap(spx.p.groups[g].metrics.duration.stats.mean_stddev).count

\* C31: two spans inserted into one configuration land in the same group
\* iff their key tuples coincide, the tuple holding one entry per configured
\* key whose extraction is present; without cleanup or update there are as
\* many groups as distinct tuples inserted.
Thm_C31_GroupPerKeyTuple ==
    LET tuples == {Spx_tuple(k) : k \in 1..Len(spx.inserted)}
    IN  /\ {Spx_group_tuple(g) : g \in DOMAIN spx.p.groups} = tuples
        /\ Cardinality(DOMAIN spx.p.groups) = Cardinality(tuples)
        /\ \A g \in DOMAIN spx.p.groups :
              Spx_group_count(g)
                = Cardinality({k \in 1..Len(spx.inserted) :
                                   Spx_tuple(k) = Spx_group_tuple(g)})

\* Two different spans share a group although a configured key is absent
\* from both, and a third span is in another group.
Wit_C31_AbsentKeyShared ==
    /\ Len(spx.inserted) = 3
    /\ Cardinality(DOMAIN spx.p.groups) = 2
    /\ \E i, j \in 1..3 :
          /\ spx.inserted[i] # spx.inserted[j]
          /\ Spx_tuple(i) = Spx_tuple(j)
          /\ Cardinality(Spx_tuple(i)) < Cardinality(spx.p.config.key)

(***************************************************************************)
(* Properties of the Summary processor.                                    *)
(***************************************************************************)
\* C32: the Summary processor keeps its digests per time bucket and the
\* window advances as time passes: when every observation was inserted
\* more than num_bins * bin_width (and the bucket of the sample) before the
\* sample, none of them contributes to the digest that the quantiles are
\* estimated from.
Cex_C32_SummaryRollsOff ==
    smp.op = "sample" =>
        LET w == Unwrap(smp.stats.summary).window
        IN  (\A k \in 1..Len(smp.hist) :
                smp.hist[k].t + (Window_num_bins(w) + 1) * Window_bin_width(w) <= smp.t)
                => smp.digest = TDigest_default

(***************************************************************************)
(* Properties of the start with a state file.                              *)
(***************************************************************************)
\* C33: after a restart with a state file the task runs with the trace
\* configuration stored in the file: get_config returns it, the processor
\* uses its rules and span configurations, and the groups saved under it
\* are still there after the startup sequence.
Cex_C33_RestartKeepsConfig ==
    (boot.op = "get_config" /\ IsSome(boot.file)) =>
        LET persisted == Unwrap(boot.file)
            p == boot.task.processor
        IN  /\ Unwrap(boot.got).trace = persisted.config.trace
            /\ p.rules = persisted.config.trace.rules
            /\ DOMAIN p.groups = DOMAIN persisted.config.trace.configs
            /\ \A c \in DOMAIN p.groups :
                  /\ p.groups[c].config = persisted.config.trace.configs[c]
                  /\ DOMAIN persisted.state.groups[c].groups
                        \subseteq DOMAIN p.groups[c].groups

(***************************************************************************)
(* Bounds of the SelfDuration source.                                      *)
(***************************************************************************)
\* C34: for every span with a duration >= 0 and every list of children
\* sorted by start time, the value the SelfDuration source emits lies
\* between 0 and the span's duration, both included.
Cex_C34_SelfDurationInRange ==
    sd.op = "insert" =>
        /\ Len(sd.values) = 1
        /\ RLe(Rat(0), sd.values[1])
        /\ RLe(sd.values[1], Rat(sd.span.duration))

(***************************************************************************)
(* Properties of the Histogram processor.                                  *)
(***************************************************************************)
\* C35: for ascending bounds and any sequence of inserts, the bucket
\* emitted with label le = b holds the number of inserted values v with
\* v <= b.
Cex_C35_BucketsAreCumulative ==
    hgp.only_inserts =>
        LET buckets == HistogramProcessor_sample_buckets(hgp.p)
        IN  /\ Len(buckets) = Len(hgp.config.bounds)
            /\ \A k \in 1..Len(buckets) :
                  buckets[k].n
                    = Cardinality({j \in 1..Len(hgp.inserted) :
                                       hgp.inserted[j] <= buckets[k].le})

\* C36: in every reachable histogram processor, after any sequence of new,
\* insert, update, save and load (a load under bounds other than those the
\* state was saved with included), bins has the length of bounds.
Cex_C36_BinsMatchBounds ==
    Len(hgp.p.bins) = Len(hgp.p.bounds)

(***************************************************************************)
(* Properties of the flush loops.                                          *)
(***************************************************************************)
\* The samples in the series handed to write requests.
RECURSIVE Fl_handed_samples(_)
Fl_handed_samples(handed) ==
    IF handed = {} THEN 0
    ELSE LET h == CHOOSE h \in handed : TRUE
         IN  Len(h[2]) + Fl_handed_samples(handed \ {h})

\* C37: the flush loops of a tick end for every configured
\* metrics_per_request and every buffer content, and when process_traces
\* returns the buffer is empty, every buffered series having been handed to
\* one write request.
Cex_C37_FlushLoopsTerminate ==
    /\ <>(fl.pc = "returned")
    /\ [](fl.pc = "returned" =>
            /\ Metrics_is_empty(fl.metrics)
            /\ ~fl.twice
            /\ Fl_handed_samples(fl.handed) = fl.buffered)

(***************************************************************************)
(* Properties of the paging of for_traces.                                 *)
(***************************************************************************)
\* C38: within a successful tick every root span of the store with a start
\* time in [from, to) is given to the trace handler once, in ascending
\* start-time order, for every number of roots relative to the page size,
\* roots that share a start time across a page boundary included.
Cex_C38_EveryRootDeliveredOnce ==
    pg.pc = "returned" =>
        /\ {pg.delivered[k] : k \in DOMAIN pg.delivered}
              = {r \in pg.store : pg.from <= r.start_time /\ r.start_time < pg.to}
        /\ \A i, j \in DOMAIN pg.delivered :
              /\ i < j => pg.delivered[i].start_time <= pg.delivered[j].start_time
              /\ pg.delivered[i] = pg.delivered[j] => i = j

\* C39: over any sequence of ticks, ticks that abort after some traces were
\* handled and ticks whose only failure is the delete of the point in time
\* included, no trace is inserted into the processor more than once: the
\* count a group has accumulated is at most the number of spans of the store
\* that are routed to the group.
Cex_C39_NoTraceInsertedTwice ==
    \A c \in DOMAIN orch.processor.groups :
        \A key \in DOMAIN orch.processor.groups[c].groups :
            orch.processor.groups[c].groups[key].metrics["calls"].source.count
                <= Cardinality({r \in orch.store :
                        SpanProcessor_key(orch.processor.groups[c].config, r, None) = key})

(***************************************************************************)
(* Properties of the shape of the processor tree.                          *)
(***************************************************************************)
\* C40: in every reachable processor, after inserts, updates, loads and
\* cleanups, the trace processor holds exactly one span processor per
\* configuration name of TraceConfig.configs, each with that configuration,
\* and every group of a span processor holds exactly the metrics named in
\* its configuration's SpanConfig.metrics.
Thm_C40_ProcessorMatchesConfig ==
    /\ DOMAIN proc.groups = DOMAIN cfg.configs
    /\ \A c \in DOMAIN proc.groups :
          /\ proc.groups[c].config = cfg.configs[c]
          /\ \A key \in DOMAIN proc.groups[c].groups :
                DOMAIN proc.groups[c].groups[key].metrics = DOMAIN cfg.configs[c].metrics

\* An update that changed the configuration names and, under an unchanged
\* key, the metric names of a group that lives on.
Wit_C40_UpdateChangedMetricNames ==
    /\ pop.op = "update"
    /\ DOMAIN pop.pre.groups # DOMAIN proc.groups
    /\ \E c \in DOMAIN proc.groups \cap DOMAIN pop.pre.groups :
          \E key \in DOMAIN proc.groups[c].groups \cap DOMAIN pop.pre.groups[c].groups :
              /\ DOMAIN pop.pre.groups[c].groups[key].metrics
                    \ DOMAIN proc.groups[c].groups[key].metrics # {}
              /\ DOMAIN proc.groups[c].groups[key].metrics
                    \ DOMAIN pop.pre.groups[c].groups[key].metrics # {}

====
